---- MODULE Spec2Model ----
(***************************************************************************)
(* Tabular import validation of excel_automate (src/app/formatting.py).    *)
(*                                                                         *)
(* Two document validators are modelled side by side:                      *)
(*   validate_and_format_dates_inplace  (variant "inplace", openpyxl)      *)
(*   process_and_validate_excel         (variant "legacy",  pandas)        *)
(*                                                                         *)
(* A cell value is a record [k, s, n]:                                     *)
(*   k = "none"  an empty cell as openpyxl reports it (None)               *)
(*   k = "nan"   an empty cell as pandas.read_excel reports it (NaN)       *)
(*   k = "nat"   pandas NaT                                                *)
(*   k = "str"   text, s is the text                                       *)
(*   k = "num"   a number, n is twice its value (so 5 stands for 2.5)      *)
(*   k = "dt"    a datetime/Timestamp, n is twice the number of days after *)
(*               1899-12-30 (so the time of day 12:00 is representable)    *)
(***************************************************************************)
EXTENDS Integers, Sequences, FiniteSets, TLC

VARIABLES
    variant,          \* which validator is being run
    company_key,      \* the tenant key argument
    src,              \* the spreadsheet as it was before the call (history)
    disk,             \* the stored spreadsheet file (file_path)
    mem,              \* the in-memory table: wb/ws (inplace), df (legacy)
    headers,          \* header name -> column index (inplace), cols (legacy)
    valid_plans,      \* set(json_db[company_key]["plan_names"])
    valid_templates,  \* set(json_db[company_key]["vesting_templates"])
    error_report,     \* the report under construction
    row_idx,          \* sheet position of the row being scanned (2 = first data row)
    row_err,          \* row_err of the row just scanned
    pc,               \* position in the validator
    ret,              \* what the call returned
    saves,            \* number of wb.save(file_path) calls made
    overflow_exc,     \* exception class of the installed pandas for a day
                      \* count outside the Timestamp range
    monitor_state,    \* state.monitor_state, the in-memory dict
    state_file,       \* MONITOR_STATE_FILE: [exists, state]
    jobs,             \* the ids in the scheduler's job store, in order added
    app_up,           \* the application process is up (scheduler started)
    thread_pc,        \* position of each thread that can run auto_extract_job
    thread_read,      \* the counter value a thread read for its "+="
    thread_files,     \* len(result.files_extracted) of a thread's run
    reply,            \* status of the latest /monitor/start or /monitor/stop
    runs_completed,   \* job runs whose extract_all returned (history)
    files_completed,  \* files those runs extracted (history)
    runs_started,     \* job runs begun (history)
    restarts,         \* shutdowns followed by a startup (history)
    messages,         \* the messages fetch_emails returns, by position
    unread,           \* positions of the messages that carry the label UNREAD
    msg_i,            \* position of the message extract_all is at
    att_i,            \* position of the attachment extract_all is at
    extract_pc,       \* position in extract_all
    any_success,      \* any_success of the message being processed
    extracted_files,  \* extracted_files, as <<message, attachment>>
    errors,           \* errors, as <<message, attachment>> (0: the message)
    reports_sent,     \* error reports Gmail accepted, as <<message, attachment>>
    results,          \* what became of each attachment (history)
    mark_requests     \* messages mark_as_read was called for (history)

\* the variables of the validators
form_vars == <<variant, company_key, src, disk, mem, headers, valid_plans,
               valid_templates, error_report, row_idx, row_err, pc, ret, saves,
               overflow_exc>>

\* the variables of the monitor
app_vars == <<monitor_state, state_file, jobs, app_up, thread_pc, thread_read,
              thread_files, reply, runs_completed, files_completed, runs_started,
              restarts>>

\* the variables of extract_all
mail_vars == <<messages, unread, msg_i, att_i, extract_pc, any_success,
               extracted_files, errors, reports_sent, results, mark_requests>>

vars == <<form_vars, app_vars, mail_vars>>

----------------------------------------------------------------------------
(* Cell values *)

NoneV == [k |-> "none", s |-> "", n |-> 0]

NaN == [k |-> "nan", s |-> "", n |-> 0]

NaT == [k |-> "nat", s |-> "", n |-> 0]

Str(x) == [k |-> "str", s |-> x, n |-> 0]

\* Num(h): the number h/2
Num(h) == [k |-> "num", s |-> "", n |-> h]

\* Dt(h): the instant h/2 days after 1899-12-30
Dt(h) == [k |-> "dt", s |-> "", n |-> h]

(* Fixed vocabulary *)

MANDATORY_HEADERS ==
    <<"Employee Id", "Options Granted", "Plan Name", "Date Of Grant",
      "Grant Price", "Vesting Template", "Vesting Date Type">>

VESTING_DATE_TYPE_OPTS == {"GrantDate", "CustomDate", "EmployeeJoiningDate"}

ACTUAL_VESTING_DAY_OPTS ==
    {"SAME_DAY", "NEXT_DAY", "PREVIOUS_DAY", "STARTING_OF_MONTH", "END_OF_MONTH"}

DATE_FORMATS == [c \in {"Date Of Grant", "Vesting Date"} |->
                    IF c = "Date Of Grant" THEN "D/M/YYYY" ELSE "d-m-yyyy"]

\* The tenant configuration handed in as json_db: two complete tenants and
\* one whose entry lacks "vesting_templates".
json_db ==
    [Acme   |-> [plan_names |-> {"ESOP-A"}, vesting_templates |-> {"T1"}],
     Globex |-> [plan_names |-> {"ESOP-B"}, vesting_templates |-> {"T2"}],
     Broken |-> [plan_names |-> {"ESOP-A"}]]

----------------------------------------------------------------------------
(* Python and pandas primitives, on the text and numbers the inputs use *)

\* str.strip()
Strip(s) ==
    CASE s = " "            -> ""
      [] s = " E1 "         -> "E1"
      [] s = " ESOP-A "     -> "ESOP-A"
      [] s = " Plan Name "  -> "Plan Name"
      [] s = "CustomDate "  -> "CustomDate"
      [] s = " 31/01/2024"  -> "31/01/2024"
      [] s = " 7 "          -> "7"
      [] OTHER              -> s

\* str.lower()
Lower(s) ==
    CASE s = "NaN"    -> "nan"
      [] s = "None"   -> "none"
      [] s = "NONE"   -> "none"
      [] s = "E1"     -> "e1"
      [] s = "E2"     -> "e2"
      [] OTHER        -> s

\* str(value)
StrOf(v) ==
    CASE v.k = "none" -> "None"
      [] v.k = "nan"  -> "nan"
      [] v.k = "nat"  -> "NaT"
      [] v.k = "str"  -> v.s
      [] v.k = "num"  -> IF v.n % 2 = 0 THEN ToString(v.n \div 2)
                         ELSE ToString(v.n \div 2) \o ".5"
      [] v.k = "dt"   -> "datetime(" \o ToString(v.n) \o ")"

\* bool(value), as used by "x if x else ''" and by "if header:"
Truthy(v) ==
    CASE v.k = "none" -> FALSE
      [] v.k = "str"  -> v.s # ""
      [] v.k = "num"  -> v.n # 0
      [] OTHER        -> TRUE

\* pd.isna(value)
IsNa(v) == v.k \in {"none", "nan", "nat"}

\* float(value): [ok, nan, n]; ok = FALSE stands for TypeError/ValueError
ToFloat(v) ==
    CASE v.k = "num" -> [ok |-> TRUE, nan |-> FALSE, n |-> v.n]
      [] v.k = "nan" -> [ok |-> TRUE, nan |-> TRUE, n |-> 0]
      [] v.k = "str" ->
            (CASE Strip(v.s) = "7"    -> [ok |-> TRUE, nan |-> FALSE, n |-> 14]
               [] Strip(v.s) = "10"   -> [ok |-> TRUE, nan |-> FALSE, n |-> 20]
               [] Strip(v.s) = "-3"   -> [ok |-> TRUE, nan |-> FALSE, n |-> 0 - 6]
               [] Strip(v.s) = "nan"  -> [ok |-> TRUE, nan |-> TRUE, n |-> 0]
               [] OTHER               -> [ok |-> FALSE, nan |-> FALSE, n |-> 0])
      [] OTHER -> [ok |-> FALSE, nan |-> FALSE, n |-> 0]

\* s.replace("/", "-").replace(".", "-")
ReplaceSep(s) ==
    CASE s = "31/01/2024" -> "31-01-2024"
      [] s = "01.02.2024" -> "01-02-2024"
      [] s = "1/2/2024"   -> "1-2-2024"
      [] OTHER            -> s

\* the same parsers called without dayfirst: ambiguous text is read month-first
ParseDayFirst_MonthFirst(s) ==
    CASE s = "31-01-2024" -> [ok |-> TRUE, h |-> 90644]
      [] s = "01-02-2024" -> [ok |-> TRUE, h |-> 90586]
      [] s = "1-2-2024"   -> [ok |-> TRUE, h |-> 90586]
      [] s = "15-03-24"   -> [ok |-> TRUE, h |-> 90732]
      [] s = "15-03-99"   -> [ok |-> TRUE, h |-> 72468]
      [] OTHER            -> [ok |-> FALSE, h |-> 0]

\* pd.to_datetime(s, dayfirst=True), then dateutil parser.parse(s, dayfirst=True):
\* [ok, h]; h is twice the serial day of the date read day-first. parse_date
\* leaves a two-digit year to these parsers, which read 24 as 2024 and 99 as
\* 1999
ParseDayFirst(s) ==
    CASE s = "31-01-2024" -> [ok |-> TRUE, h |-> 90644]
      [] s = "01-02-2024" -> [ok |-> TRUE, h |-> 90646]
      [] s = "1-2-2024"   -> [ok |-> TRUE, h |-> 90646]
      [] s = "15-03-24"   -> [ok |-> TRUE, h |-> 90732]
      [] s = "15-03-99"   -> [ok |-> TRUE, h |-> 72468]
      [] OTHER            -> [ok |-> FALSE, h |-> 0]

\* pd.to_datetime(value, errors='coerce') on one element of a column: no
\* dayfirst here, so ambiguous text is read month-first, and a bare number is
\* taken as nanoseconds after 1970-01-01
ToDatetimeCoerce(v) ==
    CASE v.k = "dt"  -> v
      [] v.k = "num" -> Dt(51138)
      [] v.k = "str" ->
            (CASE v.s = "31-01-2024" -> Dt(90644)
               [] v.s = "31/01/2024" -> Dt(90644)
               [] v.s = "01-02-2024" -> Dt(90586)
               [] v.s = "01.02.2024" -> Dt(90586)
               [] OTHER              -> NaT)
      [] OTHER -> NaT

\* pd.Timestamp.min .. pd.Timestamp.max (1677-09-21 .. 2262-04-11), as
\* doubled serial days
InTimestampRange(h) == h >= 0 - 162366 /\ h <= 264640

\* "except ValueError" catches the class (OutOfBoundsDatetime derives from it)
IsValueError(exc) == exc \in {"ValueError", "OutOfBoundsDatetime"}

\* a parse_date that tests for blank text only, not for missing values
parse_date_BlankTextOnly(value) ==
    IF value.k = "str" /\ Strip(value.s) = ""
    THEN [ok |-> FALSE, val |-> NoneV, msg |-> "Date is empty", exc |-> "ValueError"]
    ELSE IF value.k \in {"none", "nan", "nat"}
    THEN [ok |-> TRUE, val |-> NaT, msg |-> "", exc |-> ""]
    ELSE IF value.k = "num"
    THEN IF InTimestampRange(value.n)
         THEN [ok |-> TRUE, val |-> Dt(value.n), msg |-> "", exc |-> ""]
         ELSE [ok |-> FALSE, val |-> NoneV,
               msg |-> "cannot convert input " \o StrOf(value) \o " with the unit 'D'",
               exc |-> overflow_exc]
    ELSE IF value.k = "dt"
    THEN [ok |-> TRUE, val |-> value, msg |-> "", exc |-> ""]
    ELSE LET p == ParseDayFirst(ReplaceSep(Strip(StrOf(value)))) IN
         IF p.ok
         THEN [ok |-> TRUE, val |-> Dt(p.h), msg |-> "", exc |-> ""]
         ELSE [ok |-> FALSE, val |-> NoneV,
               msg |-> "Invalid date format: " \o StrOf(value), exc |-> "ValueError"]

\* parse_date(value): [ok, val, msg, exc]; ok = FALSE stands for an exception
\* of class exc with text msg. The numeric branch calls pd.to_datetime
\* outside any try block, so what pandas raises there leaves parse_date as
\* it is; the text branch turns every failure into ValueError
parse_date(value) ==
    IF IsNa(value) \/ Strip(StrOf(value)) = ""
    THEN [ok |-> FALSE, val |-> NoneV, msg |-> "Date is empty", exc |-> "ValueError"]
    ELSE IF value.k = "num"
    THEN IF InTimestampRange(value.n)
         THEN [ok |-> TRUE, val |-> Dt(value.n), msg |-> "", exc |-> ""]
         ELSE [ok |-> FALSE, val |-> NoneV,
               msg |-> "cannot convert input " \o StrOf(value) \o " with the unit 'D'",
               exc |-> overflow_exc]
    ELSE IF value.k = "dt"
    THEN [ok |-> TRUE, val |-> value, msg |-> "", exc |-> ""]
    ELSE LET p == ParseDayFirst(ReplaceSep(Strip(StrOf(value)))) IN
         IF p.ok
         THEN [ok |-> TRUE, val |-> Dt(p.h), msg |-> "", exc |-> ""]
         ELSE [ok |-> FALSE, val |-> NoneV,
               msg |-> "Invalid date format: " \o StrOf(value), exc |-> "ValueError"]

----------------------------------------------------------------------------
(* Documents *)

EmptyMap == <<>>

\* a table with no content (nothing loaded yet)
NoDoc == [hdr |-> <<>>, cells |-> <<>>, fmt |-> <<>>]

\* load_workbook(file_path): the sheet as openpyxl presents it
LoadWorkbook(d) == d

\* pd.read_excel(filepath): empty cells become NaN, number formats are not read
ReadExcel(d) ==
    [hdr   |-> d.hdr,
     cells |-> [i \in DOMAIN d.cells |->
                  [j \in DOMAIN d.cells[i] |->
                     IF d.cells[i][j].k = "none" THEN NaN ELSE d.cells[i][j]]],
     fmt   |-> [i \in DOMAIN d.fmt |-> [j \in DOMAIN d.fmt[i] |-> "General"]]]

\* header name -> column index, as built from the first row: a later column
\* with the same name replaces an earlier one, an empty header is skipped
BuildHeaders(hdr) ==
    LET names == {Strip(hdr[j]) : j \in {i \in DOMAIN hdr : hdr[i] # ""}}
    IN [nm \in names |->
          CHOOSE j \in DOMAIN hdr :
             /\ hdr[j] # "" /\ Strip(hdr[j]) = nm
             /\ \A i \in DOMAIN hdr : (hdr[i] # "" /\ Strip(hdr[i]) = nm) => i <= j]

\* df.columns = [str(c).strip() for c in df.columns]
StripColumns(hdr) == [j \in DOMAIN hdr |-> Strip(hdr[j])]

\* label -> position in df.columns
ColumnIndex(cols) ==
    [nm \in {cols[j] : j \in DOMAIN cols} |->
        CHOOSE j \in DOMAIN cols :
            cols[j] = nm /\ \A i \in DOMAIN cols : cols[i] = nm => j <= i]

\* headers.get(name): 0 stands for None (column indices start at 1)
Get(h, name) == IF name \in DOMAIN h THEN h[name] ELSE 0

\* [c for c in MANDATORY_HEADERS if c not in headers]
Missing(h) == SelectSeq(MANDATORY_HEADERS, LAMBDA c : c \notin DOMAIN h)

\* [f"Missing mandatory column header: {c}" for c in missing]
MissingMessages(missing) ==
    [i \in DOMAIN missing |-> "Missing mandatory column header: " \o missing[i]]

NewReport == [file_status |-> "Valid", file_errors |-> <<>>, row_errors |-> EmptyMap]

FatalReport ==
    [file_status |-> "Fatal Error",
     file_errors |-> <<"Company Key not found in JSON DB">>,
     row_errors  |-> EmptyMap]

\* Python's None where a report would be
NoReport == [file_status |-> "None", file_errors |-> <<>>, row_errors |-> EmptyMap]

\* the lookups json_db[company_key]["plan_names"] / ["vesting_templates"] succeed
SchemaResolvable(key) ==
    /\ key \in DOMAIN json_db
    /\ "plan_names" \in DOMAIN json_db[key]
    /\ "vesting_templates" \in DOMAIN json_db[key]

\* error_report["file_errors"] or error_report["row_errors"]
HasAnyError(rep) == rep.file_errors # <<>> \/ DOMAIN rep.row_errors # {}

\* ws.max_row: header row plus data rows
MaxRow(d) == 1 + Len(d.cells)

----------------------------------------------------------------------------
(* The scan of one row.  st = [err, row, fmt, vtype, exc]: row_err so far,   *)
(* the row's cells and number formats in the table, the local vtype, and    *)
(* the class of an exception no handler of the row body caught ("" = none). *)

AddErr(st, field, msg) == [st EXCEPT !.err = (field :> msg) @@ st.err]

RowState(d, r) ==
    [err |-> EmptyMap, row |-> d.cells[r - 1], fmt |-> d.fmt[r - 1], vtype |-> NoneV,
     exc |-> ""]

\* "str(x).strip() if x else ''"
TextOrEmpty(v) == IF Truthy(v) THEN Strip(StrOf(v)) ELSE ""

inplace_EmployeeId(st) ==
    LET emp_col == Get(headers, "Employee Id") IN
    IF emp_col = 0 THEN st
    ELSE LET emp == TextOrEmpty(st.row[emp_col]) IN
         IF emp = "" \/ Lower(emp) = "nan" \/ Lower(emp) = "none"
         THEN AddErr(st, "Employee Id", "Field is empty.")
         ELSE st

inplace_OptionsGranted(st) ==
    LET opt_col == Get(headers, "Options Granted") IN
    IF opt_col = 0 THEN st
    ELSE LET v == st.row[opt_col]
             f == ToFloat(v)
         IN IF v.k = "none" \/ ~f.ok
            THEN AddErr(st, "Options Granted", "Invalid number.")
            ELSE IF f.nan \/ f.n <= 0 \/ f.n % 2 # 0
            THEN AddErr(st, "Options Granted", "Must be whole number > 0.")
            ELSE st

inplace_PlanName(st) ==
    LET plan_col == Get(headers, "Plan Name") IN
    IF plan_col = 0 THEN st
    ELSE LET plan == TextOrEmpty(st.row[plan_col]) IN
         IF plan = "" THEN AddErr(st, "Plan Name", "Field is empty.")
         ELSE IF plan \notin valid_plans THEN AddErr(st, "Plan Name", "Invalid Plan.")
         ELSE st

\* a grant-date check that sets the cell's number format before it parses
inplace_DateOfGrant_FormatFirst(st) ==
    LET c == Get(headers, "Date Of Grant") IN
    IF c = 0 THEN st
    ELSE LET v == st.row[c]
             p == parse_date(v)
             sf == [st EXCEPT !.fmt[c] = DATE_FORMATS["Date Of Grant"]]
         IN IF v.k = "none" THEN AddErr(st, "Date Of Grant", "Date is empty")
            ELSE IF v.k = "dt" THEN sf
            ELSE IF p.ok THEN [sf EXCEPT !.row[c] = p.val]
            ELSE IF IsValueError(p.exc)
            THEN AddErr(sf, "Date Of Grant", p.msg)
            ELSE [sf EXCEPT !.exc = p.exc]

inplace_DateOfGrant(st) ==
    LET c == Get(headers, "Date Of Grant") IN
    IF c = 0 THEN st
    ELSE LET v == st.row[c]
             p == parse_date(v)
         IN IF v.k = "none" THEN AddErr(st, "Date Of Grant", "Date is empty")
            ELSE IF v.k = "dt"
            THEN [st EXCEPT !.fmt[c] = DATE_FORMATS["Date Of Grant"]]
            ELSE IF p.ok
            THEN [st EXCEPT !.row[c] = p.val, !.fmt[c] = DATE_FORMATS["Date Of Grant"]]
            ELSE IF IsValueError(p.exc)
            THEN AddErr(st, "Date Of Grant", p.msg)
            ELSE [st EXCEPT !.exc = p.exc]

inplace_GrantPrice(st) ==
    LET price_col == Get(headers, "Grant Price") IN
    IF price_col = 0 THEN st
    ELSE LET v == st.row[price_col] IN
         IF v.k = "none" \/ ~ToFloat(v).ok
         THEN AddErr(st, "Grant Price", "Must be number.")
         ELSE st

inplace_VestingTemplate(st) ==
    LET template_col == Get(headers, "Vesting Template") IN
    IF template_col = 0 THEN st
    ELSE LET template == TextOrEmpty(st.row[template_col]) IN
         IF template = "" THEN AddErr(st, "Vesting Template", "Field is empty.")
         ELSE IF template \notin valid_templates
         THEN AddErr(st, "Vesting Template", "Invalid Template.")
         ELSE st

inplace_VestingDateType(st) ==
    LET vtype_col == Get(headers, "Vesting Date Type") IN
    IF vtype_col = 0 THEN [st EXCEPT !.vtype = NoneV]
    ELSE LET vtype == TextOrEmpty(st.row[vtype_col])
             st1 == [st EXCEPT !.vtype = Str(vtype)]
         IN IF vtype \notin VESTING_DATE_TYPE_OPTS
            THEN AddErr(st1, "Vesting Date Type", "Invalid Type.")
            ELSE st1

\* a vesting-date check that also runs on any supplied value, whatever the type
inplace_VestingDate_Supplied(st) ==
    LET c == Get(headers, "Vesting Date") IN
    IF c = 0 \/ (st.vtype # Str("CustomDate") /\ st.row[c].k = "none") THEN st
    ELSE LET v == st.row[c]
             p == parse_date(v)
         IN IF v.k = "none" THEN AddErr(st, "Vesting Date", "Invalid/Empty Date.")
            ELSE IF v.k = "dt"
            THEN [st EXCEPT !.fmt[c] = DATE_FORMATS["Vesting Date"]]
            ELSE IF p.ok
            THEN [st EXCEPT !.row[c] = p.val, !.fmt[c] = DATE_FORMATS["Vesting Date"]]
            ELSE AddErr(st, "Vesting Date", "Invalid/Empty Date.")

inplace_VestingDate(st) ==
    LET c == Get(headers, "Vesting Date") IN
    IF st.vtype # Str("CustomDate") \/ c = 0 THEN st
    ELSE LET v == st.row[c]
             p == parse_date(v)
         IN IF v.k = "none" THEN AddErr(st, "Vesting Date", "Invalid/Empty Date.")
            ELSE IF v.k = "dt"
            THEN [st EXCEPT !.fmt[c] = DATE_FORMATS["Vesting Date"]]
            ELSE IF p.ok
            THEN [st EXCEPT !.row[c] = p.val, !.fmt[c] = DATE_FORMATS["Vesting Date"]]
            ELSE AddErr(st, "Vesting Date", "Invalid/Empty Date.")

inplace_ActualVestingDay(st) ==
    LET act_col == Get(headers, "Actual Vesting Day") IN
    IF act_col = 0 THEN st
    ELSE LET act == TextOrEmpty(st.row[act_col]) IN
         IF act # "" /\ act \notin ACTUAL_VESTING_DAY_OPTS
         THEN AddErr(st, "Actual Vesting Day", "Invalid Option.")
         ELSE st

\* one field check that is skipped once an earlier check has failed
AfterNoFailure(st, checked) == IF DOMAIN st.err # {} THEN st ELSE checked

\* a row body that gives up at the first failing field
inplace_RowBody_ShortCircuit(st) ==
    LET s1 == inplace_EmployeeId(st)
        s2 == AfterNoFailure(s1, inplace_OptionsGranted(s1))
        s3 == AfterNoFailure(s2, inplace_PlanName(s2))
        s4 == AfterNoFailure(s3, inplace_DateOfGrant(s3))
        s5 == AfterNoFailure(s4, inplace_GrantPrice(s4))
        s6 == AfterNoFailure(s5, inplace_VestingTemplate(s5))
        s7 == AfterNoFailure(s6, inplace_VestingDateType(s6))
        s8 == AfterNoFailure(s7, inplace_VestingDate(s7))
    IN IF s4.exc # "" THEN s4 ELSE AfterNoFailure(s8, inplace_ActualVestingDay(s8))

\* the body of "for row_idx in range(2, ws.max_row + 1)", field after field;
\* an exception the Date Of Grant handler lets through ends the body there
inplace_RowBody(st) ==
    LET s4 == inplace_DateOfGrant(
              inplace_PlanName(
              inplace_OptionsGranted(
              inplace_EmployeeId(st))))
    IN IF s4.exc # "" THEN s4
       ELSE inplace_ActualVestingDay(
            inplace_VestingDate(
            inplace_VestingDateType(
            inplace_VestingTemplate(
            inplace_GrantPrice(s4)))))

\* row.get(name, default) on the Series iterrows() yields for the row
RowGet(row, name, default) ==
    IF name \in DOMAIN headers THEN row[headers[name]] ELSE default

legacy_EmployeeId(st, row) ==
    LET emp == Strip(StrOf(RowGet(row, "Employee Id", Str("")))) IN
    IF emp = "" \/ Lower(emp) = "nan"
    THEN AddErr(st, "Employee Id", "Field is empty.")
    ELSE st

legacy_OptionsGranted(st, row) ==
    LET f == ToFloat(RowGet(row, "Options Granted", NoneV)) IN
    IF ~f.ok THEN AddErr(st, "Options Granted", "Invalid number.")
    ELSE IF f.nan \/ f.n <= 0 \/ f.n % 2 # 0
    THEN AddErr(st, "Options Granted", "Must be whole number > 0.")
    ELSE st

legacy_PlanName(st, row) ==
    LET plan == Strip(StrOf(RowGet(row, "Plan Name", Str("")))) IN
    IF plan = "" THEN AddErr(st, "Plan Name", "Field is empty.")
    ELSE IF plan \notin valid_plans THEN AddErr(st, "Plan Name", "Invalid Plan.")
    ELSE st

legacy_DateOfGrant(st, row) ==
    LET p == parse_date(RowGet(row, "Date Of Grant", NoneV)) IN
    IF p.ok
    THEN [st EXCEPT !.row[headers["Date Of Grant"]] = p.val]
    ELSE IF IsValueError(p.exc)
    THEN AddErr(st, "Date Of Grant", p.msg)
    ELSE [st EXCEPT !.exc = p.exc]

legacy_GrantPrice(st, row) ==
    IF ~ToFloat(RowGet(row, "Grant Price", NoneV)).ok
    THEN AddErr(st, "Grant Price", "Must be number.")
    ELSE st

legacy_VestingTemplate(st, row) ==
    LET template == Strip(StrOf(RowGet(row, "Vesting Template", Str("")))) IN
    IF template = "" THEN AddErr(st, "Vesting Template", "Field is empty.")
    ELSE IF template \notin valid_templates
    THEN AddErr(st, "Vesting Template", "Invalid Template.")
    ELSE st

legacy_VestingDateType(st, row) ==
    LET vtype == Strip(StrOf(RowGet(row, "Vesting Date Type", Str(""))))
        st1 == [st EXCEPT !.vtype = Str(vtype)]
    IN IF vtype \notin VESTING_DATE_TYPE_OPTS
       THEN AddErr(st1, "Vesting Date Type", "Invalid Type.")
       ELSE st1

legacy_VestingDate(st, row) ==
    IF st.vtype # Str("CustomDate") THEN st
    ELSE LET p == parse_date(RowGet(row, "Vesting Date", NoneV)) IN
         IF p.ok
         THEN [st EXCEPT !.row[headers["Vesting Date"]] = p.val]
         ELSE AddErr(st, "Vesting Date", "Invalid/Empty Date.")

legacy_ActualVestingDay(st, row) ==
    LET act == Strip(StrOf(RowGet(row, "Actual Vesting Day", Str("")))) IN
    IF act # "" /\ act \notin ACTUAL_VESTING_DAY_OPTS
    THEN AddErr(st, "Actual Vesting Day", "Invalid Option.")
    ELSE st

\* the body of "for idx, row in df.iterrows()": row is the snapshot of the
\* row taken when the iteration reached it, st.row the row inside df
legacy_RowBody(st, row) ==
    LET s4 == legacy_DateOfGrant(
              legacy_PlanName(
              legacy_OptionsGranted(
              legacy_EmployeeId(st, row), row), row), row)
    IN IF s4.exc # "" THEN s4
       ELSE legacy_ActualVestingDay(
            legacy_VestingDate(
            legacy_VestingDateType(
            legacy_VestingTemplate(
            legacy_GrantPrice(s4, row), row), row), row), row)

\* the table with row r (sheet position) replaced by the scanned row
PutRow(d, r, st) ==
    [d EXCEPT !.cells[r - 1] = st.row, !.fmt[r - 1] = st.fmt]

\* a conversion that hands the date columns back as text
ConvertDateColumns_AsText(d) ==
    [d EXCEPT !.cells =
        [i \in DOMAIN d.cells |->
           [j \in DOMAIN d.cells[i] |->
              IF d.hdr[j] \in DOMAIN DATE_FORMATS
              THEN Str(StrOf(ToDatetimeCoerce(d.cells[i][j])))
              ELSE d.cells[i][j]]]]

\* "for col in DATE_FORMATS: if col in df.columns: df[col] = pd.to_datetime(...)"
ConvertDateColumns(d) ==
    [d EXCEPT !.cells =
        [i \in DOMAIN d.cells |->
           [j \in DOMAIN d.cells[i] |->
              IF d.hdr[j] \in DOMAIN DATE_FORMATS
              THEN ToDatetimeCoerce(d.cells[i][j])
              ELSE d.cells[i][j]]]]

\* what a call hands back: (report or None, success flag / table or None)
NotReturned == [returned |-> FALSE, report |-> NoReport, ok |-> FALSE]

Returned(report, ok) == [returned |-> TRUE, report |-> report, ok |-> ok]

\* error_report["row_errors"][str(row_idx)] = row_err
RecordRow(rep, r, e) ==
    [rep EXCEPT !.row_errors = (ToString(r) :> e) @@ rep.row_errors]

----------------------------------------------------------------------------
(* Inputs *)

\* longest document, in data rows, among the multi-row inputs
MaxRows == 2

COLUMNS ==
    <<"Employee Id", "Options Granted", "Plan Name", "Date Of Grant",
      "Grant Price", "Vesting Template", "Vesting Date Type", "Vesting Date",
      "Actual Vesting Day", "Remarks">>

Without(hdr, names) == SelectSeq(hdr, LAMBDA c : c \notin names)

\* the header rows of the multi-row inputs
HeaderRows ==
    { COLUMNS,
      [COLUMNS EXCEPT ![3] = " Plan Name "],
      Without(COLUMNS, {"Vesting Date"}),
      Without(COLUMNS, {"Plan Name"}),
      Without(COLUMNS, {"Employee Id", "Date Of Grant", "Vesting Date Type"}) }

\* the header rows of the one-row inputs: every mandatory header present
FullHeaderRows ==
    { COLUMNS,
      Without(COLUMNS, {"Vesting Date"}),
      Without(COLUMNS, {"Actual Vesting Day"}) }

MkRow(emp, opt, plan, dog, price, template, vtype, vdate, act) ==
    ("Employee Id" :> emp) @@ ("Options Granted" :> opt) @@ ("Plan Name" :> plan)
    @@ ("Date Of Grant" :> dog) @@ ("Grant Price" :> price)
    @@ ("Vesting Template" :> template) @@ ("Vesting Date Type" :> vtype)
    @@ ("Vesting Date" :> vdate) @@ ("Actual Vesting Day" :> act)
    @@ ("Remarks" :> Str("note"))

\* rows valid for tenant Acme
GrantRow ==
    MkRow(Str("E1"), Num(20), Str("ESOP-A"), Str("31/01/2024"), Num(20),
          Str("T1"), Str("GrantDate"), NoneV, Str("SAME_DAY"))

CustomRow ==
    MkRow(Str("E2"), Num(14), Str("ESOP-A"), Num(90646), Num(5),
          Str("T1"), Str("CustomDate"), Str("01.02.2024"), NoneV)

\* the rows of the multi-row inputs
RowKinds ==
    { GrantRow,
      CustomRow,
      [GrantRow EXCEPT !["Plan Name"] = Str("ESOP-B")],
      [GrantRow EXCEPT !["Date Of Grant"] = Str("garbage")],
      [CustomRow EXCEPT !["Vesting Date"] = NoneV] }

\* every combination of a few values per field
CrossRows ==
    { MkRow(emp, opt, plan, dog, price, template, vtype, vdate, act) :
        emp \in {Str("E1"), NoneV},
        opt \in {Num(20), Num(0), Str("abc")},
        plan \in {Str("ESOP-A"), Str("ESOP-B")},
        dog \in {Str("31/01/2024"), Str("garbage"), NoneV},
        price \in {Num(20), Str("abc")},
        template \in {Str("T1"), NoneV},
        vtype \in {Str("GrantDate"), Str("CustomDate"), Str("Bogus")},
        vdate \in {NoneV, Str("01.02.2024"), Str("garbage")},
        act \in {NoneV, Str("SAME_DAY"), Str("bogus")} }

\* further values a single field may hold
FieldValues(c) ==
    CASE c = "Employee Id" ->
            {Str(" "), Str("nan"), Str("None"), Str(" E1 "), Num(0), Num(4004)}
      [] c = "Options Granted" ->
            {NoneV, Num(5), Num(0 - 6), Str("10"), Str(" 7 "), Str(" ")}
      [] c = "Plan Name" -> {NoneV, Str(" "), Str(" ESOP-A "), Str("esop-a"), Num(20)}
      [] c = "Date Of Grant" ->
            {Num(90646), Num(90647), Dt(90646), Str(" "), Str("15-03-24"),
             Str("1/2/2024"), Str(" 31/01/2024"), Str("15-03-99"), Num(6000000)}
      [] c = "Grant Price" -> {NoneV, Num(0), Num(0 - 6), Str("10"), Str(" ")}
      [] c = "Vesting Template" -> {Str("T2"), Str(" "), Num(20)}
      [] c = "Vesting Date Type" ->
            {NoneV, Str("EmployeeJoiningDate"), Str("CustomDate "), Str("customdate")}
      [] c = "Vesting Date" ->
            {NoneV, Num(90646), Dt(90646), Str(" "), Str("31/01/2024"), Str("garbage"),
             Num(6000000)}
      [] c = "Actual Vesting Day" ->
            {NoneV, Str("END_OF_MONTH"), Str(" "), Str("same_day")}

CHECKED_FIELDS == {COLUMNS[j] : j \in 1..9}

\* a valid row with one field replaced
VariedRows ==
    { [base EXCEPT ![c] = v] :
        <<base, c, v>> \in
            { <<b, f, w>> \in {GrantRow, CustomRow} \X CHECKED_FIELDS \X
                 UNION {FieldValues(f) : f \in CHECKED_FIELDS} :
                 w \in FieldValues(f) } }

MkDoc(hdr, rows) ==
    [hdr   |-> hdr,
     cells |-> [i \in DOMAIN rows |-> [j \in DOMAIN hdr |-> rows[i][Strip(hdr[j])]]],
     fmt   |-> [i \in DOMAIN rows |-> [j \in DOMAIN hdr |-> "General"]]]

SeqUpTo(S, n) == UNION {[1..k -> S] : k \in 0..n}

\* documents of up to MaxRows rows, for any tenant key
ManyRowDocs == {MkDoc(h, rows) : h \in HeaderRows, rows \in SeqUpTo(RowKinds, MaxRows)}

\* one-row documents, for tenant Acme
OneRowDocs ==
    {MkDoc(h, <<r>>) : h \in FullHeaderRows, r \in CrossRows \cup VariedRows}

TenantKeys == {"Acme", "Globex", "Broken", "Nobody"}

----------------------------------------------------------------------------
(* The monitor as the import of the modules leaves it *)

\* id of the one job the application schedules
JOB_ID == "auto_extract_job"

\* the threads that can run auto_extract_job: the scheduler's worker, and the
\* worker serving POST /monitor/start, which calls the job synchronously
Threads == {"scheduler", "request"}

\* state.monitor_state as the module defines it (the fields the endpoints
\* decide on and count in)
DefaultMonitorState ==
    [is_running |-> FALSE, total_checks |-> 0, total_files_extracted |-> 0]

\* MONITOR_STATE_FILE before anything was saved
NoFile == [exists |-> FALSE, state |-> DefaultMonitorState]

AppNotStarted ==
    /\ monitor_state = DefaultMonitorState
    /\ state_file = NoFile
    /\ jobs = <<>>
    /\ app_up = FALSE
    /\ thread_pc = [t \in Threads |-> "idle"]
    /\ thread_read = [t \in Threads |-> 0]
    /\ thread_files = [t \in Threads |-> 0]
    /\ reply = ""
    /\ runs_completed = 0
    /\ files_completed = 0
    /\ runs_started = 0
    /\ restarts = 0

\* extract_all has not been called: no message fetched, nothing recorded
ExtractNotCalled ==
    /\ messages = <<>>
    /\ unread = {}
    /\ msg_i = 0
    /\ att_i = 0
    /\ extract_pc = "start"
    /\ any_success = FALSE
    /\ extracted_files = <<>>
    /\ errors = <<>>
    /\ reports_sent = {}
    /\ results = {}
    /\ mark_requests = {}

----------------------------------------------------------------------------
(* The state when a validator is called *)

Init ==
    /\ AppNotStarted
    /\ ExtractNotCalled
    /\ variant \in {"inplace", "legacy"}
    /\ \/ src \in ManyRowDocs /\ company_key \in TenantKeys
       \/ src \in OneRowDocs /\ company_key = "Acme"
    /\ disk = src
    /\ mem = IF variant = "legacy" THEN ReadExcel(src) ELSE NoDoc
    /\ headers = EmptyMap
    /\ valid_plans = {}
    /\ valid_templates = {}
    /\ error_report = NoReport
    /\ row_idx = 0
    /\ row_err = EmptyMap
    /\ pc = "start"
    /\ ret = NotReturned
    /\ saves = 0
    /\ overflow_exc \in
          IF \E i \in DOMAIN src.cells : \E j \in DOMAIN src.cells[i] :
                src.cells[i][j].k = "num" /\ ~InTimestampRange(src.cells[i][j].n)
          THEN {"OutOfBoundsDatetime", "OverflowError"}
          ELSE {"OutOfBoundsDatetime"}

----------------------------------------------------------------------------
(* validate_and_format_dates_inplace(file_path, company_key, json_db) *)

inplace_LoadWorkbook ==
    /\ variant = "inplace" /\ pc = "start"
    /\ error_report' = NewReport
    /\ mem' = LoadWorkbook(disk)
    /\ headers' = BuildHeaders(LoadWorkbook(disk).hdr)
    /\ pc' = "headers"
    /\ UNCHANGED <<app_vars, mail_vars, overflow_exc,
                   variant, company_key, src, disk, valid_plans, valid_templates,
                   row_idx, row_err, ret, saves>>

inplace_MissingStatus ==
    /\ variant = "inplace" /\ pc = "headers"
    /\ Missing(headers) # <<>>
    /\ error_report' = [error_report EXCEPT !.file_status = "Has Errors"]
    /\ pc' = "missing"
    /\ UNCHANGED <<app_vars, mail_vars, overflow_exc,
                   variant, company_key, src, disk, mem, headers, valid_plans,
                   valid_templates, row_idx, row_err, ret, saves>>

inplace_MissingErrors ==
    /\ variant = "inplace" /\ pc = "missing"
    /\ error_report' =
          [error_report EXCEPT !.file_errors = MissingMessages(Missing(headers))]
    /\ ret' = Returned(error_report', FALSE)
    /\ pc' = "done"
    /\ UNCHANGED <<app_vars, mail_vars, overflow_exc,
                   variant, company_key, src, disk, mem, headers, valid_plans,
                   valid_templates, row_idx, row_err, saves>>

\* a schema lookup that falls back to empty sets instead of failing
inplace_ResolveSchema_Lenient ==
    /\ variant = "inplace" /\ pc = "headers"
    /\ Missing(headers) = <<>>
    /\ valid_plans' =
          IF SchemaResolvable(company_key) THEN json_db[company_key]["plan_names"] ELSE {}
    /\ valid_templates' =
          IF SchemaResolvable(company_key)
          THEN json_db[company_key]["vesting_templates"] ELSE {}
    /\ row_idx' = 2
    /\ pc' = "scan"
    /\ UNCHANGED <<app_vars, mail_vars, overflow_exc,
                   variant, company_key, src, disk, mem, headers, error_report,
                   row_err, ret, saves>>

inplace_ResolveSchema ==
    /\ variant = "inplace" /\ pc = "headers"
    /\ Missing(headers) = <<>>
    /\ IF SchemaResolvable(company_key)
       THEN /\ valid_plans' = json_db[company_key]["plan_names"]
            /\ valid_templates' = json_db[company_key]["vesting_templates"]
            /\ row_idx' = 2
            /\ pc' = "scan"
            /\ ret' = ret
       ELSE /\ ret' = Returned(FatalReport, FALSE)
            /\ pc' = "done"
            /\ UNCHANGED <<valid_plans, valid_templates, row_idx>>
    /\ UNCHANGED <<app_vars, mail_vars, overflow_exc,
                   variant, company_key, src, disk, mem, headers, error_report,
                   row_err, saves>>

inplace_ValidateRow ==
    /\ variant = "inplace" /\ pc = "scan"
    /\ row_idx <= MaxRow(mem)
    /\ LET st == inplace_RowBody(RowState(mem, row_idx)) IN
          /\ mem' = PutRow(mem, row_idx, st)
          /\ row_err' = st.err
          /\ pc' = IF st.exc # "" THEN "raised" ELSE "row"
    /\ UNCHANGED <<app_vars, mail_vars, overflow_exc,
                   variant, company_key, src, disk, headers, valid_plans,
                   valid_templates, error_report, row_idx, ret, saves>>

inplace_RecordRowErrors ==
    /\ variant = "inplace" /\ pc = "row"
    /\ DOMAIN row_err # {}
    /\ error_report' = RecordRow(error_report, row_idx, row_err)
    /\ pc' = "mark"
    /\ UNCHANGED <<app_vars, mail_vars, overflow_exc,
                   variant, company_key, src, disk, mem, headers, valid_plans,
                   valid_templates, row_idx, row_err, ret, saves>>

\* a status update that was left out
inplace_MarkHasErrors_Forgotten ==
    /\ variant = "inplace" /\ pc = "mark"
    /\ row_idx' = row_idx + 1
    /\ pc' = "scan"
    /\ UNCHANGED <<app_vars, mail_vars, overflow_exc,
                   variant, company_key, src, disk, mem, headers, valid_plans,
                   valid_templates, error_report, row_err, ret, saves>>

inplace_MarkHasErrors ==
    /\ variant = "inplace" /\ pc = "mark"
    /\ error_report' = [error_report EXCEPT !.file_status = "Has Errors"]
    /\ row_idx' = row_idx + 1
    /\ pc' = "scan"
    /\ UNCHANGED <<app_vars, mail_vars, overflow_exc,
                   variant, company_key, src, disk, mem, headers, valid_plans,
                   valid_templates, row_err, ret, saves>>

inplace_NextRow ==
    /\ variant = "inplace" /\ pc = "row"
    /\ DOMAIN row_err = {}
    /\ row_idx' = row_idx + 1
    /\ pc' = "scan"
    /\ UNCHANGED <<app_vars, mail_vars, overflow_exc,
                   variant, company_key, src, disk, mem, headers, valid_plans,
                   valid_templates, error_report, row_err, ret, saves>>

\* a rejection that saves the workbook before it returns the report
inplace_Reject_Saving ==
    /\ variant = "inplace" /\ pc = "scan"
    /\ row_idx > MaxRow(mem)
    /\ HasAnyError(error_report)
    /\ disk' = mem
    /\ saves' = saves + 1
    /\ ret' = Returned(error_report, FALSE)
    /\ pc' = "done"
    /\ UNCHANGED <<app_vars, mail_vars, overflow_exc,
                   variant, company_key, src, mem, headers, valid_plans,
                   valid_templates, error_report, row_idx, row_err>>

inplace_Reject ==
    /\ variant = "inplace" /\ pc = "scan"
    /\ row_idx > MaxRow(mem)
    /\ HasAnyError(error_report)
    /\ ret' = Returned(error_report, FALSE)
    /\ pc' = "done"
    /\ UNCHANGED <<app_vars, mail_vars, overflow_exc,
                   variant, company_key, src, disk, mem, headers, valid_plans,
                   valid_templates, error_report, row_idx, row_err, saves>>

\* a save that looks at the file errors only
inplace_Save_FileErrorsOnly ==
    /\ variant = "inplace" /\ pc = "scan"
    /\ row_idx > MaxRow(mem)
    /\ error_report.file_errors = <<>>
    /\ disk' = mem
    /\ saves' = saves + 1
    /\ ret' = Returned(NoReport, TRUE)
    /\ pc' = "done"
    /\ UNCHANGED <<app_vars, mail_vars, overflow_exc,
                   variant, company_key, src, mem, headers, valid_plans,
                   valid_templates, error_report, row_idx, row_err>>

inplace_Save ==
    /\ variant = "inplace" /\ pc = "scan"
    /\ row_idx > MaxRow(mem)
    /\ ~HasAnyError(error_report)
    /\ disk' = mem
    /\ saves' = saves + 1
    /\ ret' = Returned(NoReport, TRUE)
    /\ pc' = "done"
    /\ UNCHANGED <<app_vars, mail_vars, overflow_exc,
                   variant, company_key, src, mem, headers, valid_plans,
                   valid_templates, error_report, row_idx, row_err>>

----------------------------------------------------------------------------
(* process_and_validate_excel(df, company_key, json_db) *)

legacy_NormalizeHeaders ==
    /\ variant = "legacy" /\ pc = "start"
    /\ error_report' = NewReport
    /\ mem' = [mem EXCEPT !.hdr = StripColumns(mem.hdr)]
    /\ headers' = ColumnIndex(StripColumns(mem.hdr))
    /\ pc' = "headers"
    /\ UNCHANGED <<app_vars, mail_vars, overflow_exc,
                   variant, company_key, src, disk, valid_plans, valid_templates,
                   row_idx, row_err, ret, saves>>

legacy_MissingStatus ==
    /\ variant = "legacy" /\ pc = "headers"
    /\ Missing(headers) # <<>>
    /\ error_report' = [error_report EXCEPT !.file_status = "Has Errors"]
    /\ pc' = "missing"
    /\ UNCHANGED <<app_vars, mail_vars, overflow_exc,
                   variant, company_key, src, disk, mem, headers, valid_plans,
                   valid_templates, row_idx, row_err, ret, saves>>

legacy_MissingErrors ==
    /\ variant = "legacy" /\ pc = "missing"
    /\ error_report' =
          [error_report EXCEPT !.file_errors = MissingMessages(Missing(headers))]
    /\ pc' = "schema"
    /\ UNCHANGED <<app_vars, mail_vars, overflow_exc,
                   variant, company_key, src, disk, mem, headers, valid_plans,
                   valid_templates, row_idx, row_err, ret, saves>>

legacy_ResolveSchema ==
    /\ variant = "legacy"
    /\ (pc = "headers" /\ Missing(headers) = <<>>) \/ pc = "schema"
    /\ IF SchemaResolvable(company_key)
       THEN /\ valid_plans' = json_db[company_key]["plan_names"]
            /\ valid_templates' = json_db[company_key]["vesting_templates"]
            /\ row_idx' = 2
            /\ pc' = "scan"
            /\ ret' = ret
       ELSE /\ ret' = Returned(FatalReport, FALSE)
            /\ pc' = "done"
            /\ UNCHANGED <<valid_plans, valid_templates, row_idx>>
    /\ UNCHANGED <<app_vars, mail_vars, overflow_exc,
                   variant, company_key, src, disk, mem, headers, error_report,
                   row_err, saves>>

legacy_ValidateRow ==
    /\ variant = "legacy" /\ pc = "scan"
    /\ row_idx <= MaxRow(mem)
    /\ LET st == legacy_RowBody(RowState(mem, row_idx), mem.cells[row_idx - 1]) IN
          /\ mem' = PutRow(mem, row_idx, st)
          /\ row_err' = st.err
          /\ pc' = IF st.exc # "" THEN "raised" ELSE "row"
    /\ UNCHANGED <<app_vars, mail_vars, overflow_exc,
                   variant, company_key, src, disk, headers, valid_plans,
                   valid_templates, error_report, row_idx, ret, saves>>

legacy_RecordRowErrors ==
    /\ variant = "legacy" /\ pc = "row"
    /\ DOMAIN row_err # {}
    /\ error_report' = RecordRow(error_report, row_idx, row_err)
    /\ pc' = "mark"
    /\ UNCHANGED <<app_vars, mail_vars, overflow_exc,
                   variant, company_key, src, disk, mem, headers, valid_plans,
                   valid_templates, row_idx, row_err, ret, saves>>

legacy_MarkHasErrors ==
    /\ variant = "legacy" /\ pc = "mark"
    /\ error_report' = [error_report EXCEPT !.file_status = "Has Errors"]
    /\ row_idx' = row_idx + 1
    /\ pc' = "scan"
    /\ UNCHANGED <<app_vars, mail_vars, overflow_exc,
                   variant, company_key, src, disk, mem, headers, valid_plans,
                   valid_templates, row_err, ret, saves>>

legacy_NextRow ==
    /\ variant = "legacy" /\ pc = "row"
    /\ DOMAIN row_err = {}
    /\ row_idx' = row_idx + 1
    /\ pc' = "scan"
    /\ UNCHANGED <<app_vars, mail_vars, overflow_exc,
                   variant, company_key, src, disk, mem, headers, valid_plans,
                   valid_templates, error_report, row_err, ret, saves>>

\* a rejection that hands back the DataFrame along with the report
legacy_Reject_WithFrame ==
    /\ variant = "legacy" /\ pc = "scan"
    /\ row_idx > MaxRow(mem)
    /\ HasAnyError(error_report)
    /\ ret' = Returned(error_report, TRUE)
    /\ pc' = "done"
    /\ UNCHANGED <<app_vars, mail_vars, overflow_exc,
                   variant, company_key, src, disk, mem, headers, valid_plans,
                   valid_templates, error_report, row_idx, row_err, saves>>

legacy_Reject ==
    /\ variant = "legacy" /\ pc = "scan"
    /\ row_idx > MaxRow(mem)
    /\ HasAnyError(error_report)
    /\ ret' = Returned(error_report, FALSE)
    /\ pc' = "done"
    /\ UNCHANGED <<app_vars, mail_vars, overflow_exc,
                   variant, company_key, src, disk, mem, headers, valid_plans,
                   valid_templates, error_report, row_idx, row_err, saves>>

legacy_ReturnFrame ==
    /\ variant = "legacy" /\ pc = "scan"
    /\ row_idx > MaxRow(mem)
    /\ ~HasAnyError(error_report)
    /\ mem' = ConvertDateColumns(mem)
    /\ ret' = Returned(NoReport, TRUE)
    /\ pc' = "done"
    /\ UNCHANGED <<app_vars, mail_vars, overflow_exc,
                   variant, company_key, src, disk, headers, valid_plans,
                   valid_templates, error_report, row_idx, row_err, saves>>

----------------------------------------------------------------------------

Next ==
    \/ inplace_LoadWorkbook
    \/ inplace_MissingStatus
    \/ inplace_MissingErrors
    \/ inplace_ResolveSchema
    \/ inplace_ValidateRow
    \/ inplace_RecordRowErrors
    \/ inplace_MarkHasErrors
    \/ inplace_NextRow
    \/ inplace_Reject
    \/ inplace_Save
    \/ legacy_NormalizeHeaders
    \/ legacy_MissingStatus
    \/ legacy_MissingErrors
    \/ legacy_ResolveSchema
    \/ legacy_ValidateRow
    \/ legacy_RecordRowErrors
    \/ legacy_MarkHasErrors
    \/ legacy_NextRow
    \/ legacy_Reject
    \/ legacy_ReturnFrame

Spec == Init /\ [][Next]_vars

TypeOK ==
    /\ variant \in {"inplace", "legacy"}
    /\ pc \in {"start", "headers", "missing", "schema", "scan", "row", "mark", "done",
              "raised"}
    /\ overflow_exc \in {"OutOfBoundsDatetime", "OverflowError"}
    /\ saves \in 0..1

----------------------------------------------------------------------------
(* Vocabulary of the properties *)

Range(f) == {f[x] : x \in DOMAIN f}

\* the table as the caller handed it in: the file for the in-place validator,
\* the DataFrame read from the file for the legacy one
CallerOriginal == IF variant = "legacy" THEN ReadExcel(src) ELSE src

\* the caller's table now
CallerNow == IF variant = "legacy" THEN mem ELSE disk

\* mandatory headers the document lacks
AbsentHeaders ==
    {c \in Range(MANDATORY_HEADERS) : \A j \in DOMAIN src.hdr : Strip(src.hdr[j]) # c}

\* tenant keys whose entry in json_db carries both lists
KeyResolves == company_key \in {"Acme", "Globex"}

\* the scan has not looked at any data row
NoRowExamined == row_idx = 0 \/ (row_idx = 2 /\ pc = "scan")

\* the working table still holds the values it was loaded with
NoCellMutated ==
    mem.cells = IF variant = "legacy" THEN ReadExcel(src).cells ELSE src.cells

Finished == pc = "done"

\* the run ended by handing back a report
Rejected == Finished /\ (~ret.ok \/ ret.report # NoReport)

ReportConsistent(rep) ==
    rep.file_status = "Valid" <=> (rep.file_errors = <<>> /\ DOMAIN rep.row_errors = {})

----------------------------------------------------------------------------
(* C1: a document lacking a mandatory header is rejected with status        *)
(* "Has Errors", one file error per missing header, no row errors, and      *)
(* without any data row being examined or changed, whatever the tenant key, *)
(* by both validators.                                                      *)
C1_HeaderFailureRejects ==
    (Finished /\ AbsentHeaders # {}) =>
        /\ ~ret.ok
        /\ ret.report.file_status = "Has Errors"
        /\ Len(ret.report.file_errors) = Cardinality(AbsentHeaders)
        /\ Range(ret.report.file_errors) =
              {"Missing mandatory column header: " \o c : c \in AbsentHeaders}
        /\ DOMAIN ret.report.row_errors = {}
        /\ row_idx = 0
        /\ valid_plans = {} /\ valid_templates = {}
        /\ NoCellMutated

\* the same, of the in-place validator alone
C1_InplaceOnly == variant = "inplace" => C1_HeaderFailureRejects

(* C2: with every mandatory header present and a tenant key that does not   *)
(* resolve, the call returns "Fatal Error" with a file error, no row        *)
(* errors, and no data row examined or changed.                             *)
C2_UnknownTenantIsFatal ==
    (Finished /\ AbsentHeaders = {} /\ ~KeyResolves) =>
        /\ ~ret.ok
        /\ ret.report.file_status = "Fatal Error"
        /\ ret.report.file_errors # <<>>
        /\ DOMAIN ret.report.row_errors = {}
        /\ row_idx = 0
        /\ NoCellMutated
        /\ disk = src

C2_Witness ==
    /\ Finished /\ AbsentHeaders = {} /\ company_key = "Broken"
    /\ Len(src.cells) >= 1
    /\ ret.report.file_status = "Fatal Error"

(* C3: the in-place validator saves the workbook only in a run that has     *)
(* accumulated no file error and no row error, and then exactly once, after *)
(* the last row was scanned.                                                *)
C3_SaveOnlyWhenClean ==
    variant = "inplace" =>
        /\ saves <= 1
        /\ saves = 1 =>
              /\ Finished /\ ret.ok
              /\ error_report.file_errors = <<>>
              /\ DOMAIN error_report.row_errors = {}
              /\ error_report.file_status = "Valid"
              /\ row_idx = Len(src.cells) + 2
        /\ (Finished /\ ret.ok) => saves = 1

C3_Witness ==
    /\ variant = "inplace" /\ saves = 1
    /\ Len(src.cells) >= 2
    /\ disk # src

(* C4: when a run ends in rejection the stored document is never written:   *)
(* its content equals the content before the run, even though date cells    *)
(* were already overwritten in the working table.                           *)
C4_RejectedNeverWritten ==
    (~Finished \/ Rejected \/ HasAnyError(error_report)) => (disk = src /\ saves = 0)

C4_Witness ==
    /\ Rejected /\ variant = "inplace"
    /\ DOMAIN ret.report.row_errors # {}
    /\ mem.cells # src.cells
    /\ disk = src

(* C5: (a) no cell outside the columns "Date Of Grant" and "Vesting Date"   *)
(* of the caller's table is changed; (b) after a rejected run no cell of    *)
(* the caller's table differs from its original value.                      *)
C5a_OnlyDateColumnsChange ==
    \A i \in DOMAIN CallerOriginal.cells : \A j \in DOMAIN CallerOriginal.hdr :
        Strip(CallerOriginal.hdr[j]) \notin {"Date Of Grant", "Vesting Date"} =>
            /\ CallerNow.cells[i][j] = CallerOriginal.cells[i][j]
            /\ pc # "start" => mem.cells[i][j] = CallerOriginal.cells[i][j]

C5b_RejectedLeavesCellsAlone ==
    Rejected => CallerNow.cells = CallerOriginal.cells

C5_NonCorruption == C5a_OnlyDateColumnsChange /\ C5b_RejectedLeavesCellsAlone

\* part (b) of the in-place validator alone
C5b_InplaceOnly == variant = "inplace" => C5b_RejectedLeavesCellsAlone

(* C6, as claimed: at every point where a report exists its status is       *)
(* "Valid" exactly when it has no file error and no row error.              *)
C6_StatusIffEmptyAlways ==
    /\ pc # "start" => ReportConsistent(error_report)
    /\ (Finished /\ ret.report # NoReport) => ReportConsistent(ret.report)

(* C6, amended: every report handed back, and the report under construction *)
(* at every point except between the two assignments of a status update     *)
(* (after the status but before the file errors are set for missing         *)
(* headers; after a row's errors are stored but before the status is set),  *)
(* has status "Valid" exactly when it has no file error and no row error.   *)
C6_StatusIffEmptyBetweenUpdates ==
    /\ pc \notin {"start", "missing", "mark"} => ReportConsistent(error_report)
    /\ (Finished /\ ret.report # NoReport) =>
           /\ ReportConsistent(ret.report)
           /\ ret.report.file_status \in {"Has Errors", "Fatal Error"}

C6_Witness ==
    /\ Finished
    /\ ret.report.file_status = "Has Errors"
    /\ ret.report.file_errors = <<>>
    /\ Cardinality(DOMAIN ret.report.row_errors) >= 2

(* C7: a call that returns ends either in success (no report, the document  *)
(* committed or handed back) or in rejection (a report with status "Has     *)
(* Errors" or "Fatal Error" and at least one error, no document, nothing    *)
(* persisted), never in a mixture.                                          *)
C7_Success ==
    /\ ret.report = NoReport /\ ret.ok
    /\ variant = "inplace" => (saves = 1 /\ disk = mem)

C7_Rejection ==
    /\ ret.report.file_status \in {"Has Errors", "Fatal Error"}
    /\ ret.report.file_errors # <<>> \/ DOMAIN ret.report.row_errors # {}
    /\ ~ret.ok
    /\ saves = 0 /\ disk = src

C7_TwoOutcomes ==
    Finished => /\ ret.returned
                /\ C7_Success \/ C7_Rejection
                /\ ~(C7_Success /\ C7_Rejection)

C7_Witness ==
    /\ Finished /\ variant = "legacy" /\ ret.ok
    /\ Len(src.cells) >= 2

----------------------------------------------------------------------------
(* The row under scan, as the properties see it *)

\* the row being scanned, as the caller handed it in
FreshRow == RowState(CallerOriginal, row_idx)

\* row_err of one field's check run on its own on the row as handed in (the
\* check of "Vesting Date" reads the local vtype its predecessor sets)
AloneErr(c) ==
    IF variant = "inplace"
    THEN CASE c = "Employee Id"        -> inplace_EmployeeId(FreshRow).err
           [] c = "Options Granted"    -> inplace_OptionsGranted(FreshRow).err
           [] c = "Plan Name"          -> inplace_PlanName(FreshRow).err
           [] c = "Date Of Grant"      -> inplace_DateOfGrant(FreshRow).err
           [] c = "Grant Price"        -> inplace_GrantPrice(FreshRow).err
           [] c = "Vesting Template"   -> inplace_VestingTemplate(FreshRow).err
           [] c = "Vesting Date Type"  -> inplace_VestingDateType(FreshRow).err
           [] c = "Vesting Date"       ->
                 inplace_VestingDate(inplace_VestingDateType(FreshRow)).err
           [] c = "Actual Vesting Day" -> inplace_ActualVestingDay(FreshRow).err
    ELSE CASE c = "Employee Id"        -> legacy_EmployeeId(FreshRow, FreshRow.row).err
           [] c = "Options Granted"    -> legacy_OptionsGranted(FreshRow, FreshRow.row).err
           [] c = "Plan Name"          -> legacy_PlanName(FreshRow, FreshRow.row).err
           [] c = "Date Of Grant"      -> legacy_DateOfGrant(FreshRow, FreshRow.row).err
           [] c = "Grant Price"        -> legacy_GrantPrice(FreshRow, FreshRow.row).err
           [] c = "Vesting Template"   -> legacy_VestingTemplate(FreshRow, FreshRow.row).err
           [] c = "Vesting Date Type"  -> legacy_VestingDateType(FreshRow, FreshRow.row).err
           [] c = "Vesting Date"       ->
                 legacy_VestingDate(legacy_VestingDateType(FreshRow, FreshRow.row),
                                    FreshRow.row).err
           [] c = "Actual Vesting Day" -> legacy_ActualVestingDay(FreshRow, FreshRow.row).err

FailsAlone(c) == c \in DOMAIN AloneErr(c)

\* position of a column in the spreadsheet, 0 when it has no such column
SrcCol(c) ==
    IF \E j \in DOMAIN src.hdr : Strip(src.hdr[j]) = c
    THEN CHOOSE j \in DOMAIN src.hdr : Strip(src.hdr[j]) = c
    ELSE 0

\* the spreadsheet cell of sheet row r (empty when there is no column)
SrcCellAt(r, c) == IF SrcCol(c) = 0 THEN NoneV ELSE src.cells[r - 1][SrcCol(c)]

\* its trimmed text, "" for an empty cell
CellTextAt(r, c) ==
    IF SrcCellAt(r, c).k = "none" THEN "" ELSE Strip(StrOf(SrcCellAt(r, c)))

\* the spreadsheet cell of the row under scan, and its trimmed text
SrcCell(c) == SrcCellAt(row_idx, c)

CellText(c) == CellTextAt(row_idx, c)

ParsesAsNumber(v) == v.k # "none" /\ ToFloat(v).ok /\ ~ToFloat(v).nan

\* the field rules of the row validator, on the spreadsheet's own values
RuleHoldsAt(r, c) ==
    CASE c = "Employee Id" ->
            CellTextAt(r, c) # "" /\ Lower(CellTextAt(r, c)) \notin {"nan", "none"}
      [] c = "Options Granted" ->
            /\ ParsesAsNumber(SrcCellAt(r, c))
            /\ ToFloat(SrcCellAt(r, c)).n > 0 /\ ToFloat(SrcCellAt(r, c)).n % 2 = 0
      [] c = "Plan Name" -> CellTextAt(r, c) \in json_db[company_key]["plan_names"]
      [] c = "Date Of Grant" -> parse_date(SrcCellAt(r, c)).ok
      [] c = "Grant Price" -> ParsesAsNumber(SrcCellAt(r, c))
      [] c = "Vesting Template" ->
            CellTextAt(r, c) \in json_db[company_key]["vesting_templates"]
      [] c = "Vesting Date Type" -> CellTextAt(r, c) \in VESTING_DATE_TYPE_OPTS
      [] c = "Vesting Date" ->
            CellTextAt(r, "Vesting Date Type") = "CustomDate"
                => parse_date(SrcCellAt(r, c)).ok
      [] c = "Actual Vesting Day" ->
            CellTextAt(r, c) = "" \/ CellTextAt(r, c) \in ACTUAL_VESTING_DAY_OPTS

RuleHolds(c) == RuleHoldsAt(row_idx, c)

BrokenRulesAt(r) == {c \in CHECKED_FIELDS : ~RuleHoldsAt(r, c)}

BrokenRules == {c \in CHECKED_FIELDS : ~RuleHolds(c)}

RowScanned == pc = "row"

----------------------------------------------------------------------------
(* C8: within a row every field check runs, whatever the checks before it   *)
(* found: row_err has an entry for a field exactly when that field's own    *)
(* check fails on the row, with that check's message, so k failing fields   *)
(* give k entries.                                                          *)
C8_NoShortCircuit ==
    RowScanned =>
        /\ DOMAIN row_err = {c \in CHECKED_FIELDS : FailsAlone(c)}
        /\ \A c \in DOMAIN row_err : row_err[c] = AloneErr(c)[c]
        /\ Cardinality(DOMAIN row_err) =
              Cardinality({c \in CHECKED_FIELDS : FailsAlone(c)})

C8_Witness ==
    /\ RowScanned
    /\ Cardinality(DOMAIN row_err) = 8
    /\ "Employee Id" \in DOMAIN row_err /\ "Actual Vesting Day" \in DOMAIN row_err

(* C9: a row valid under its tenant's schema gets an empty row_err, and a   *)
(* row in which exactly one of the nine checked fields holds an invalid     *)
(* value gets exactly one entry, keyed by that field (of sheets that have   *)
(* all nine checked columns).                                               *)
C9_ValidRowsAndSingleFaults ==
    (RowScanned /\ \A c \in CHECKED_FIELDS : SrcCol(c) # 0) =>
        /\ BrokenRules = {} => DOMAIN row_err = {}
        /\ \A c \in CHECKED_FIELDS : BrokenRules = {c} => DOMAIN row_err = {c}

\* the same, of the in-place validator alone
C9_InplaceOnly == variant = "inplace" => C9_ValidRowsAndSingleFaults

(* C10: a row with Vesting Date Type CustomDate and an empty or missing     *)
(* vesting date (also when the sheet has no "Vesting Date" column) gets a   *)
(* "Vesting Date" entry; a row with type GrantDate and an empty vesting     *)
(* date gets none.                                                          *)
C10_ConditionalVestingDate ==
    RowScanned =>
        /\ (CellText("Vesting Date Type") = "CustomDate" /\ CellText("Vesting Date") = "")
              => "Vesting Date" \in DOMAIN row_err
        /\ (CellText("Vesting Date Type") = "GrantDate" /\ CellText("Vesting Date") = "")
              => "Vesting Date" \notin DOMAIN row_err

\* the same, of sheets that have a "Vesting Date" column
C10_WithColumn == SrcCol("Vesting Date") # 0 => C10_ConditionalVestingDate

\* the same, of the legacy validator alone
C10_LegacyOnly == variant = "legacy" => C10_ConditionalVestingDate

----------------------------------------------------------------------------
\* the cell of the row under scan in the working table (empty when the table
\* has no such column)
MemCell(c) ==
    IF c \in DOMAIN headers THEN mem.cells[row_idx - 1][headers[c]] ELSE NoneV

\* the same cell as the caller handed it in
OrigCell(c) ==
    IF c \in DOMAIN headers THEN CallerOriginal.cells[row_idx - 1][headers[c]]
    ELSE NoneV

(* C11 as stated: a row whose Vesting Date Type is not CustomDate and whose *)
(* Vesting Date holds a value that cannot be normalized gets the row error  *)
(* "Vesting Date" = "Invalid/Empty Date.".                                  *)
C11_SuppliedVestingDateValidated ==
    RowScanned =>
        ((/\ CellText("Vesting Date Type") # "CustomDate"
          /\ CellText("Vesting Date") # ""
          /\ ~parse_date(SrcCell("Vesting Date")).ok)
            => /\ "Vesting Date" \in DOMAIN row_err
               /\ row_err["Vesting Date"] = "Invalid/Empty Date.")

(* C11 amended: a row whose Vesting Date Type is not CustomDate gets no     *)
(* "Vesting Date" error whatever its Vesting Date holds, and the scan of    *)
(* the row leaves that cell as it was.                                      *)
C11_OnlyCustomDateValidated ==
    RowScanned =>
        (CellText("Vesting Date Type") # "CustomDate"
            => /\ "Vesting Date" \notin DOMAIN row_err
               /\ MemCell("Vesting Date") = OrigCell("Vesting Date"))

C11_Witness ==
    /\ RowScanned
    /\ CellText("Vesting Date Type") = "GrantDate"
    /\ SrcCell("Vesting Date") = Str("garbage")
    /\ "Vesting Date" \notin DOMAIN row_err

----------------------------------------------------------------------------
\* the sheet rows the scan has finished with
ScannedRows ==
    IF pc = "scan" \/ (pc = "done" /\ row_idx > 0) THEN 2..(row_idx - 1) ELSE {}

\* row_err of the row body run on sheet row r of the table as handed in
RowErrOf(r) ==
    IF variant = "inplace"
    THEN inplace_RowBody(RowState(CallerOriginal, r)).err
    ELSE legacy_RowBody(RowState(CallerOriginal, r), CallerOriginal.cells[r - 1]).err

\* the data rows of the spreadsheet, by sheet position
DataRows == 2..(1 + Len(src.cells))

\* rows whose only broken rule is a non-empty Plan Name outside the tenant's set
PlanOnlyRows ==
    {r \in DataRows : BrokenRulesAt(r) = {"Plan Name"} /\ CellTextAt(r, "Plan Name") # ""}

(* C12, the scan: between rows and at the end of the scan row_errors holds  *)
(* an entry for exactly the scanned rows with a failing field, the k-th     *)
(* data row under the key k + 1, and the entry is what the row's own cells  *)
(* and the tenant's sets give, whatever the other rows hold.                *)
C12_KeysAreFailingRows ==
    (pc \in {"scan", "done"}) =>
        /\ DOMAIN error_report.row_errors =
              {ToString(r) : r \in {q \in ScannedRows : DOMAIN RowErrOf(q) # {}}}
        /\ \A r \in ScannedRows :
              DOMAIN RowErrOf(r) # {} => error_report.row_errors[ToString(r)] = RowErrOf(r)

(* C12, the example: a document with every mandatory header, a tenant whose *)
(* schema resolves, and one row whose Plan Name is outside the tenant's     *)
(* plan set as its only defect, is rejected with no file error and          *)
(* row_errors = {that row's identifier: {"Plan Name": "Invalid Plan."}}.    *)
C12_SinglePlanDefect ==
    (/\ Finished /\ KeyResolves /\ AbsentHeaders = {}
     /\ Cardinality(PlanOnlyRows) = 1
     /\ \A r \in DataRows \ PlanOnlyRows : BrokenRulesAt(r) = {})
        => /\ ret.returned /\ ~ret.ok
           /\ ret.report =
                [file_status |-> "Has Errors",
                 file_errors |-> <<>>,
                 row_errors |->
                    [k \in {ToString(r) : r \in PlanOnlyRows} |->
                        ("Plan Name" :> "Invalid Plan.")]]

(* C12: the row scan keys row_errors by the identifiers k + 1 of exactly    *)
(* the rows with a failing field, each row's errors depending on that row   *)
(* and the tenant's schema alone; in particular a document whose only       *)
(* defect is one row's Plan Name outside the tenant's plan set yields Has   *)
(* Errors with row_errors = {that row: {"Plan Name": "Invalid Plan."}}.     *)
C12_RowIndependence == C12_KeysAreFailingRows /\ C12_SinglePlanDefect

\* the same, of the in-place validator alone
C12_InplaceOnly == variant = "inplace" => C12_RowIndependence

----------------------------------------------------------------------------
\* the call ended by an exception leaving the validator
Raised == pc = "raised"

(* C13: no exception escapes row validation. A run whose header check and   *)
(* schema resolution passed never ends by a raised exception, and a Date Of *)
(* Grant whose parsing raises (whatever the class of the error) is recorded *)
(* as the row's "Date Of Grant" entry when the scan of the row ends.        *)
C13_NoExceptionEscapes ==
    /\ ~Raised
    /\ (pc \in {"row", "raised"} /\ SrcCol("Date Of Grant") # 0
          /\ ~parse_date(SrcCell("Date Of Grant")).ok)
            => "Date Of Grant" \in DOMAIN row_err

\* the same, where pandas reports an out-of-range day count as a ValueError
C13_WhenOnlyValueErrors ==
    overflow_exc = "OutOfBoundsDatetime" => C13_NoExceptionEscapes

\* a failing Vesting Date is recorded whatever the class of the error
C13_VestingDateCaught ==
    (RowScanned /\ CellText("Vesting Date Type") = "CustomDate"
       /\ SrcCol("Vesting Date") # 0 /\ ~parse_date(SrcCell("Vesting Date")).ok)
        => "Vesting Date" \in DOMAIN row_err

----------------------------------------------------------------------------
\* number format of a cell of the row under scan, now and as handed in
MemFmt(c) == mem.fmt[row_idx - 1][headers[c]]

OrigFmt(c) == CallerOriginal.fmt[row_idx - 1][headers[c]]

\* the date columns of the working table
DateColumns == DOMAIN DATE_FORMATS \cap DOMAIN headers

\* the row validator runs the column's date check on the row under scan
DateChecked(c) == c = "Date Of Grant" \/ CellText("Vesting Date Type") = "CustomDate"

(* C14: when the scan of a row ends, a date cell whose field failed holds   *)
(* its raw value and its number format; a cell that was replaced belongs to *)
(* a field that passed and holds that field's normalized value; a checked   *)
(* field that passed holds its normalized value whatever the row's other    *)
(* fields did; and no other cell of the row has changed.                    *)
C14_WriteBackPerField ==
    RowScanned =>
        /\ \A c \in DateColumns :
              /\ c \in DOMAIN row_err =>
                    MemCell(c) = OrigCell(c) /\ MemFmt(c) = OrigFmt(c)
              /\ MemCell(c) # OrigCell(c) =>
                    /\ c \notin DOMAIN row_err
                    /\ MemCell(c) = parse_date(OrigCell(c)).val
              /\ (c \notin DOMAIN row_err /\ DateChecked(c)) =>
                    MemCell(c) = parse_date(OrigCell(c)).val
        /\ \A j \in DOMAIN mem.hdr :
              Strip(mem.hdr[j]) \notin DOMAIN DATE_FORMATS =>
                 /\ mem.cells[row_idx - 1][j] = CallerOriginal.cells[row_idx - 1][j]
                 /\ mem.fmt[row_idx - 1][j] = CallerOriginal.fmt[row_idx - 1][j]

C14_Witness ==
    /\ RowScanned
    /\ "Date Of Grant" \in DOMAIN row_err
    /\ "Vesting Date" \in DateColumns
    /\ MemCell("Vesting Date") # OrigCell("Vesting Date")
    /\ MemCell("Date Of Grant") = OrigCell("Date Of Grant")

----------------------------------------------------------------------------
(* A second run, on the output of the first, with the same tenant key. The  *)
(* header row and the key are those of the first run, so the header check   *)
(* and the schema resolution end as they did, with the same headers,        *)
(* valid_plans and valid_templates.                                         *)

\* the row scan of the second run, row by row
SecondScan(d) ==
    [i \in DOMAIN d.cells |->
        IF variant = "inplace"
        THEN inplace_RowBody(RowState(d, i + 1))
        ELSE legacy_RowBody(RowState(d, i + 1), d.cells[i])]

\* the second run ends in success
SecondRunOk(d) ==
    \A i \in DOMAIN d.cells :
        DOMAIN SecondScan(d)[i].err = {} /\ SecondScan(d)[i].exc = ""

\* the table the second run saves (inplace) or returns (legacy)
SecondRunOutput(d) ==
    LET scanned == [d EXCEPT !.cells = [i \in DOMAIN d.cells |-> SecondScan(d)[i].row],
                             !.fmt = [i \in DOMAIN d.cells |-> SecondScan(d)[i].fmt]]
    IN IF variant = "inplace" THEN scanned ELSE ConvertDateColumns(scanned)

(* C15: when a run succeeds, a second run on its output with the same       *)
(* tenant schema succeeds too and changes no cell value and no number       *)
(* format.                                                                  *)
C15_Idempotent ==
    (Finished /\ ret.ok) =>
        /\ SecondRunOk(CallerNow)
        /\ SecondRunOutput(CallerNow) = CallerNow

C15_Witness ==
    /\ Finished /\ ret.ok
    /\ \E i \in DOMAIN CallerNow.cells : \E j \in DOMAIN CallerNow.cells[i] :
          /\ CallerNow.cells[i][j] # CallerOriginal.cells[i][j]
          /\ CallerNow.cells[i][j].k = "dt"
    /\ SecondRunOutput(CallerNow) = CallerNow

----------------------------------------------------------------------------
\* the empty, whitespace-only and missing values a date cell can hold
EmptyValues == {NoneV, NaN, NaT, Str(""), Str(" ")}

\* the value parse_date received for a column of the row under scan: the
\* cell as the caller handed it in, None when the table has no such column
DateArgument(c) == OrigCell(c)

(* C16: parse_date raises ValueError for every empty, whitespace-only or    *)
(* missing (None, NaN) value and returns no date for it; so a row whose     *)
(* Date Of Grant is empty gets a "Date Of Grant" row error when its scan    *)
(* ends, in both validators.                                                *)
C16_EmptyDateNeverAccepted ==
    RowScanned =>
        /\ DateArgument("Date Of Grant") \in EmptyValues =>
              LET p == parse_date(DateArgument("Date Of Grant")) IN
                 ~p.ok /\ p.exc = "ValueError" /\ p.val.k # "dt"
        /\ CellText("Date Of Grant") = "" =>
              /\ "Date Of Grant" \in DOMAIN row_err
              /\ row_err["Date Of Grant"] = "Date is empty"
              /\ MemCell("Date Of Grant") = OrigCell("Date Of Grant")

C16_Witness ==
    /\ RowScanned
    /\ variant = "legacy"
    /\ DateArgument("Date Of Grant") = NaN
    /\ "Date Of Grant" \in DOMAIN row_err

\* the same case in the in-place validator, on a whitespace-only cell
C16_WitnessBlankText ==
    /\ RowScanned
    /\ variant = "inplace"
    /\ DateArgument("Date Of Grant") = Str(" ")
    /\ "Date Of Grant" \in DOMAIN row_err

----------------------------------------------------------------------------
(* The calendar: the date a serial day count stands for *)

IsLeap(y) == (y % 4 = 0 /\ y % 100 # 0) \/ y % 400 = 0

MonthLengths(y) ==
    <<31, IF IsLeap(y) THEN 29 ELSE 28, 31, 30, 31, 30, 31, 31, 30, 31, 30, 31>>

DaysIn(y) == IF IsLeap(y) THEN 366 ELSE 365

RECURSIVE YearFrom(_, _)
\* the year, and the day within it, d days after 1 January of year y
YearFrom(y, d) ==
    IF d < DaysIn(y) THEN [y |-> y, d |-> d] ELSE YearFrom(y + 1, d - DaysIn(y))

RECURSIVE MonthFrom(_, _, _)
\* the month, and the day of the month, d days after the first of month m
MonthFrom(y, m, d) ==
    IF d < MonthLengths(y)[m] THEN [m |-> m, d |-> d + 1]
    ELSE MonthFrom(y, m + 1, d - MonthLengths(y)[m])

\* the calendar date of the doubled serial h (day 0 = 1899-12-30, so
\* 1900-01-01 is day 2), for dates from 1900 on
CalendarDate(h) ==
    LET yd == YearFrom(1900, (h \div 2) - 2)
        md == MonthFrom(yd.y, 1, yd.d)
    IN [y |-> yd.y, m |-> md.m, d |-> md.d]

\* the date a text with a four-digit year spells, read day-first
TextDate(s) ==
    CASE Strip(s) = "31/01/2024" -> [y |-> 2024, m |-> 1, d |-> 31]
      [] Strip(s) = "01.02.2024" -> [y |-> 2024, m |-> 2, d |-> 1]
      [] Strip(s) = "1/2/2024"   -> [y |-> 2024, m |-> 2, d |-> 1]
      [] OTHER                   -> [y |-> 0, m |-> 0, d |-> 0]

(* C17: when the scan of a row ends, a checked date cell that held a number *)
(* n holds the date n days after 1899-12-30 (45323 gives 2024-02-01), one   *)
(* that held a structured date holds it unchanged, and one that held a      *)
(* day-first text with "/", "." or "-" holds the calendar date the text     *)
(* spells, the same date the serial number and the structured value of     *)
(* that day give.                                                           *)
C17_DateShapesAgree ==
    RowScanned =>
        \A c \in DateColumns :
            (DateChecked(c) /\ c \notin DOMAIN row_err) =>
                LET v == OrigCell(c)
                    now == MemCell(c)
                IN /\ v.k = "num" => now = Dt(v.n)
                   /\ v = Num(90646) => CalendarDate(now.n) = [y |-> 2024, m |-> 2, d |-> 1]
                   /\ v.k = "dt" => now = v
                   /\ (v.k = "str" /\ TextDate(v.s).y # 0) =>
                         /\ now.k = "dt" /\ now.n % 2 = 0
                         /\ CalendarDate(now.n) = TextDate(v.s)
                   /\ (v.k = "str" /\ TextDate(v.s) = CalendarDate(90646)) =>
                         now = parse_date(Num(90646)).val /\ now = parse_date(Dt(90646)).val

C17_Witness ==
    /\ RowScanned
    /\ OrigCell("Date Of Grant") = Str("1/2/2024")
    /\ MemCell("Date Of Grant") = Dt(90646)

\* the numeric and the structured shape of the same day
C17_WitnessSerial ==
    /\ RowScanned
    /\ OrigCell("Date Of Grant") = Num(90646)
    /\ "Vesting Date" \in DateColumns
    /\ OrigCell("Vesting Date") = Dt(90646)
    /\ MemCell("Date Of Grant") = MemCell("Vesting Date")

----------------------------------------------------------------------------
\* the two-digit year a text date is written with, -1 when it has none
TwoDigitYear(s) ==
    CASE Strip(s) = "15-03-24" -> 24
      [] Strip(s) = "15-03-99" -> 99
      [] OTHER                 -> 0 - 1

\* the row under scan holds a text date with a two-digit year in column c
HasTwoDigitYear(c) ==
    /\ c \in DateColumns /\ DateChecked(c)
    /\ OrigCell(c).k = "str" /\ TwoDigitYear(OrigCell(c).s) >= 0

(* C18: a text date written with a two-digit year yy is normalized to a     *)
(* date in the year 2000 + yy ("15-03-24" to a date in 2024): when the scan *)
(* of a row ends, its cell holds a date of that year.                       *)
C18_TwoDigitYearIn2000s ==
    RowScanned =>
        \A c \in DOMAIN DATE_FORMATS :
            HasTwoDigitYear(c) =>
                /\ c \notin DOMAIN row_err
                /\ MemCell(c).k = "dt"
                /\ CalendarDate(MemCell(c).n).y = 2000 + TwoDigitYear(OrigCell(c).s)

\* the same, of the years the parsers place in the 2000s
C18_Year24 ==
    (RowScanned /\ OrigCell("Date Of Grant") = Str("15-03-24")) =>
        CalendarDate(MemCell("Date Of Grant").n) = [y |-> 2024, m |-> 3, d |-> 15]

\* what the code gives for yy = 99
C18_Year99 ==
    (RowScanned /\ OrigCell("Date Of Grant") = Str("15-03-99")) =>
        CalendarDate(MemCell("Date Of Grant").n) = [y |-> 1999, m |-> 3, d |-> 15]

----------------------------------------------------------------------------
\* the Options Granted cell of the row under scan holds a whole number > 0
WholePositive(v) == ParsesAsNumber(v) /\ ToFloat(v).n > 0 /\ ToFloat(v).n % 2 = 0

(* C19: when the scan of a row ends, "Options Granted" has no entry exactly *)
(* when the cell parses as a whole number greater than 0; a cell that       *)
(* parses but is <= 0 or fractional has "Must be whole number > 0."; a cell *)
(* that is missing or does not parse has "Invalid number.", in both         *)
(* validators.                                                              *)
C19_OptionsGrantedMessages ==
    (RowScanned /\ SrcCol("Options Granted") # 0) =>
        LET v == SrcCell("Options Granted") IN
        /\ "Options Granted" \notin DOMAIN row_err <=> WholePositive(v)
        /\ (ParsesAsNumber(v) /\ ~WholePositive(v)) =>
              /\ "Options Granted" \in DOMAIN row_err
              /\ row_err["Options Granted"] = "Must be whole number > 0."
        /\ ~ParsesAsNumber(v) =>
              /\ "Options Granted" \in DOMAIN row_err
              /\ row_err["Options Granted"] = "Invalid number."

\* the same, of the in-place validator alone
C19_InplaceOnly == variant = "inplace" => C19_OptionsGrantedMessages

\* the same, of the rows whose Options Granted cell is not empty
C19_NonEmptyCells ==
    (RowScanned /\ SrcCol("Options Granted") # 0) =>
        (SrcCell("Options Granted").k # "none" => C19_OptionsGrantedMessages)

----------------------------------------------------------------------------
\* the tenant's allowed values of an enumerated field
TenantSet(c) ==
    IF c = "Plan Name" THEN json_db[company_key]["plan_names"]
    ELSE json_db[company_key]["vesting_templates"]

\* the message for a value outside the tenant's set
InvalidMessage(c) == IF c = "Plan Name" THEN "Invalid Plan." ELSE "Invalid Template."

\* a value some other tenant allows and this one does not
OtherTenantsValue(c) ==
    IF c = "Plan Name" THEN CellText(c) = "ESOP-B" ELSE CellText(c) = "T2"

(* C20: when the scan of a row ends, Plan Name (likewise Vesting Template)  *)
(* has "Field is empty." exactly when its trimmed value is empty or         *)
(* missing, "Invalid Plan." ("Invalid Template.") exactly when the trimmed  *)
(* value is non-empty and not, case-sensitively, a member of the tenant's   *)
(* set, and no entry otherwise; a value only another tenant allows is       *)
(* rejected.                                                                *)
C20_EnumeratedFields ==
    (RowScanned /\ KeyResolves) =>
        \A c \in {"Plan Name", "Vesting Template"} :
            SrcCol(c) # 0 =>
                LET msg == IF c \in DOMAIN row_err THEN row_err[c] ELSE "" IN
                /\ msg = "Field is empty." <=> CellText(c) = ""
                /\ msg = InvalidMessage(c) <=>
                      (CellText(c) # "" /\ CellText(c) \notin TenantSet(c))
                /\ msg = "" <=> CellText(c) \in TenantSet(c)
                /\ (company_key = "Acme" /\ OtherTenantsValue(c)) =>
                      msg = InvalidMessage(c)

\* the same, of the in-place validator alone
C20_InplaceOnly == variant = "inplace" => C20_EnumeratedFields

\* the same, of the rows whose Plan Name and Vesting Template are not empty
C20_NonEmptyCells ==
    (RowScanned /\ SrcCol("Plan Name") # 0 /\ SrcCol("Vesting Template") # 0) =>
        ((SrcCell("Plan Name").k # "none" /\ SrcCell("Vesting Template").k # "none")
            => C20_EnumeratedFields)

----------------------------------------------------------------------------
(* The outcome the in-place validator gives for the same spreadsheet and    *)
(* tenant key, computed from its own operators. In a state where the legacy *)
(* validator has resolved the schema, headers, valid_plans and              *)
(* valid_templates hold what the in-place validator would have built.       *)

\* the call ended, by a return or by an exception
Ended == pc \in {"done", "raised"}

\* what a caller observes of a call: an exception, or the pair returned
Outcome ==
    IF Raised THEN [raised |-> TRUE, ok |-> FALSE, report |-> NoReport]
    ELSE [raised |-> FALSE, ok |-> ret.ok, report |-> ret.report]

\* row_err of the in-place row body on sheet row r of the spreadsheet
inplace_RowOf(r) == inplace_RowBody(RowState(src, r))

\* the rows the in-place scan reaches: it stops at the first row that raises
inplace_Reached ==
    {r \in DataRows : \A q \in DataRows : q < r => inplace_RowOf(q).exc = ""}

inplace_Outcome ==
    IF Missing(BuildHeaders(src.hdr)) # <<>>
    THEN [raised |-> FALSE, ok |-> FALSE,
          report |-> [file_status |-> "Has Errors",
                      file_errors |-> MissingMessages(Missing(BuildHeaders(src.hdr))),
                      row_errors |-> EmptyMap]]
    ELSE IF ~SchemaResolvable(company_key)
    THEN [raised |-> FALSE, ok |-> FALSE, report |-> FatalReport]
    ELSE IF \E r \in inplace_Reached : inplace_RowOf(r).exc # ""
    THEN [raised |-> TRUE, ok |-> FALSE, report |-> NoReport]
    ELSE LET failing == {r \in DataRows : DOMAIN inplace_RowOf(r).err # {}} IN
         IF failing = {}
         THEN [raised |-> FALSE, ok |-> TRUE, report |-> NoReport]
         ELSE [raised |-> FALSE, ok |-> FALSE,
               report |-> [file_status |-> "Has Errors",
                           file_errors |-> <<>>,
                           row_errors |->
                              [k \in {ToString(r) : r \in failing} |->
                                  inplace_RowOf(
                                     CHOOSE r \in failing : ToString(r) = k).err]]]

\* inplace_Outcome is the outcome of the in-place validator's own runs
C21_InplaceOutcomeIsActual ==
    (variant = "inplace" /\ Ended) => Outcome = inplace_Outcome

\* both validators build the same header map from the first row
SameHeaderMap == BuildHeaders(src.hdr) = ColumnIndex(StripColumns(src.hdr))

(* C21: for every document and tenant key the two validators return the    *)
(* same outcome: when a run of the legacy validator has ended, its outcome  *)
(* (success, or rejection with its file_status, file_errors and row_errors) *)
(* is the one the in-place validator gives for the same spreadsheet and     *)
(* key.                                                                     *)
C21_VariantsAgree ==
    (variant = "legacy" /\ Ended) => (SameHeaderMap /\ Outcome = inplace_Outcome)

\* a cell both validators read alike: not empty, unless it is a Vesting Date
\* neither validator looks at, and not an Employee Id that only the in-place
\* validator takes for empty (the text "None", the number 0)
ReadAlike(r, c) ==
    /\ SrcCellAt(r, c).k = "none" =>
          (c = "Vesting Date" /\ CellTextAt(r, "Vesting Date Type") # "CustomDate")
    /\ c = "Employee Id" =>
          (Truthy(SrcCellAt(r, c)) /\ Lower(CellTextAt(r, c)) # "none")

\* the same, of spreadsheets that have every mandatory header, a Vesting Date
\* column wherever a row has type CustomDate, and only cells both validators
\* read alike in the checked columns they have
C21_AgreeOnCellsReadAlike ==
    (/\ AbsentHeaders = {}
     /\ \A r \in DataRows :
           /\ CellTextAt(r, "Vesting Date Type") = "CustomDate"
                 => SrcCol("Vesting Date") # 0
           /\ \A c \in CHECKED_FIELDS : SrcCol(c) # 0 => ReadAlike(r, c))
        => C21_VariantsAgree

----------------------------------------------------------------------------
(* The monitor: main.py's startup/shutdown events and /monitor endpoints,   *)
(* scheduler.py's job store and auto_extract_job, state.py's persisted      *)
(* monitor_state.  The /monitor/start worker and the scheduler's worker run *)
(* auto_extract_job on the shared monitor_state without a lock, so each     *)
(* "+=" is a read followed by a write.                                      *)

\* job runs a behaviour may begin
MaxRuns == 3

\* files one run of extract_all may extract
MaxFiles == 1

\* restarts of the application a behaviour may hold
MaxRestarts == 1

\* the validators are not part of the monitor's steps
FormNotCalled ==
    /\ variant = "legacy" /\ company_key = "Acme"
    /\ src = NoDoc /\ disk = NoDoc /\ mem = NoDoc
    /\ headers = EmptyMap /\ valid_plans = {} /\ valid_templates = {}
    /\ error_report = NoReport /\ row_idx = 0 /\ row_err = EmptyMap
    /\ pc = "start" /\ ret = NotReturned /\ saves = 0
    /\ overflow_exc = "OutOfBoundsDatetime"

\* scheduler.get_job(id) is not None
HasJob(js, id) == \E i \in DOMAIN js : js[i] = id

\* scheduler.remove_job(id)
RemoveJob(js, id) == SelectSeq(js, LAMBDA j : j # id)

\* scheduler.add_job(..., id=id, replace_existing=True): a job with the same
\* id is updated in place, otherwise the job is added
AddJob(js, id) == IF HasJob(js, id) THEN js ELSE Append(js, id)

\* start_job(check_interval_minutes)
start_job(js) ==
    AddJob(IF HasJob(js, JOB_ID) THEN RemoveJob(js, JOB_ID) ELSE js, JOB_ID)

\* save_monitor_state()
SavedFile(state) == [exists |-> TRUE, state |-> state]

\* load_monitor_state(): monitor_state.update(the file's content)
load_monitor_state(state, file) == IF file.exists THEN file.state ELSE state

\* where a thread is once auto_extract_job returns
AfterJob(t) == IF t = "request" THEN "return" ELSE "idle"

MonitorInit == AppNotStarted /\ FormNotCalled /\ ExtractNotCalled

\* @app.on_event("startup"): a fresh process, its scheduler with no job
startup_event ==
    /\ ~app_up
    /\ monitor_state' = load_monitor_state(monitor_state, state_file)
    /\ app_up' = TRUE
    /\ UNCHANGED <<form_vars, mail_vars, state_file, jobs, thread_pc, thread_read, thread_files,
                   reply, runs_completed, files_completed, runs_started, restarts>>

\* @app.on_event("shutdown"), and the end of the process: the scheduler and
\* the in-memory monitor_state are gone, the file stays
shutdown_event ==
    /\ app_up
    /\ \A t \in Threads : thread_pc[t] = "idle"
    /\ restarts < MaxRestarts
    /\ app_up' = FALSE
    /\ jobs' = <<>>
    /\ monitor_state' = DefaultMonitorState
    /\ reply' = ""
    /\ restarts' = restarts + 1
    /\ UNCHANGED <<form_vars, mail_vars, state_file, thread_pc, thread_read, thread_files,
                   runs_completed, files_completed, runs_started>>

\* POST /monitor/start without valid credentials: HTTP 401
start_monitor_Unauthenticated ==
    /\ app_up /\ thread_pc["request"] = "idle"
    /\ reply' = "401"
    /\ UNCHANGED <<form_vars, mail_vars, monitor_state, state_file, jobs, app_up, thread_pc,
                   thread_read, thread_files, runs_completed, files_completed,
                   runs_started, restarts>>

\* POST /monitor/start while monitor_state["is_running"]
start_monitor_AlreadyRunning ==
    /\ app_up /\ thread_pc["request"] = "idle"
    /\ monitor_state.is_running
    /\ reply' = "already_running"
    /\ UNCHANGED <<form_vars, mail_vars, monitor_state, state_file, jobs, app_up, thread_pc,
                   thread_read, thread_files, runs_completed, files_completed,
                   runs_started, restarts>>

\* POST /monitor/start: set the flag and save
start_monitor_Mark ==
    /\ app_up /\ thread_pc["request"] = "idle"
    /\ ~monitor_state.is_running
    /\ runs_started < MaxRuns
    /\ monitor_state' = [monitor_state EXCEPT !.is_running = TRUE]
    /\ state_file' = SavedFile(monitor_state')
    /\ thread_pc' = [thread_pc EXCEPT !["request"] = "start_job"]
    /\ UNCHANGED <<form_vars, mail_vars, jobs, app_up, thread_read, thread_files, reply,
                   runs_completed, files_completed, runs_started, restarts>>

\* POST /monitor/start: start_job(...), then the synchronous auto_extract_job()
start_monitor_StartJob ==
    /\ thread_pc["request"] = "start_job"
    /\ jobs' = start_job(jobs)
    /\ thread_pc' = [thread_pc EXCEPT !["request"] = "job"]
    /\ runs_started' = runs_started + 1
    /\ UNCHANGED <<form_vars, mail_vars, monitor_state, state_file, app_up, thread_read,
                   thread_files, reply, runs_completed, files_completed, restarts>>

\* POST /monitor/start: the response after the synchronous run
start_monitor_Return ==
    /\ thread_pc["request"] = "return"
    /\ reply' = "started"
    /\ thread_pc' = [thread_pc EXCEPT !["request"] = "idle"]
    /\ UNCHANGED <<form_vars, mail_vars, monitor_state, state_file, jobs, app_up, thread_read,
                   thread_files, runs_completed, files_completed, runs_started,
                   restarts>>

\* POST /monitor/stop while not running
stop_monitor_NotRunning ==
    /\ app_up
    /\ ~monitor_state.is_running
    /\ reply' = "not_running"
    /\ UNCHANGED <<form_vars, mail_vars, monitor_state, state_file, jobs, app_up, thread_pc,
                   thread_read, thread_files, runs_completed, files_completed,
                   runs_started, restarts>>

\* POST /monitor/stop
stop_monitor ==
    /\ app_up
    /\ monitor_state.is_running
    /\ jobs' = IF HasJob(jobs, JOB_ID) THEN RemoveJob(jobs, JOB_ID) ELSE jobs
    /\ monitor_state' = [monitor_state EXCEPT !.is_running = FALSE]
    /\ state_file' = SavedFile(monitor_state')
    /\ reply' = "stopped"
    /\ UNCHANGED <<form_vars, mail_vars, app_up, thread_pc, thread_read, thread_files,
                   runs_completed, files_completed, runs_started, restarts>>

\* the interval trigger fires: the scheduler's worker begins auto_extract_job
\* (one instance at a time)
scheduler_Fire ==
    /\ app_up /\ HasJob(jobs, JOB_ID)
    /\ thread_pc["scheduler"] = "idle"
    /\ runs_started < MaxRuns
    /\ thread_pc' = [thread_pc EXCEPT !["scheduler"] = "job"]
    /\ runs_started' = runs_started + 1
    /\ UNCHANGED <<form_vars, mail_vars, monitor_state, state_file, jobs, app_up, thread_read,
                   thread_files, reply, runs_completed, files_completed, restarts>>

\* auto_extract_job: no valid credentials, return
job_NoCredentials(t) ==
    /\ thread_pc[t] = "job"
    /\ thread_pc' = [thread_pc EXCEPT ![t] = AfterJob(t)]
    /\ UNCHANGED <<form_vars, mail_vars, monitor_state, state_file, jobs, app_up, thread_read,
                   thread_files, reply, runs_completed, files_completed, runs_started,
                   restarts>>

\* auto_extract_job: an exception before the counters, caught and logged
job_Fails(t) ==
    /\ thread_pc[t] = "job"
    /\ thread_pc' = [thread_pc EXCEPT ![t] = AfterJob(t)]
    /\ UNCHANGED <<form_vars, mail_vars, monitor_state, state_file, jobs, app_up, thread_read,
                   thread_files, reply, runs_completed, files_completed, runs_started,
                   restarts>>

\* result = extractor.extract_all(filters)
job_Extract(t) ==
    /\ thread_pc[t] = "job"
    /\ \E n \in 0..MaxFiles :
          /\ thread_files' = [thread_files EXCEPT ![t] = n]
          /\ files_completed' = files_completed + n
    /\ runs_completed' = runs_completed + 1
    /\ thread_pc' = [thread_pc EXCEPT ![t] = "read_checks"]
    /\ UNCHANGED <<form_vars, mail_vars, monitor_state, state_file, jobs, app_up, thread_read,
                   reply, runs_started, restarts>>

\* monitor_state["total_checks"] += 1, the read
job_ReadChecks(t) ==
    /\ thread_pc[t] = "read_checks"
    /\ thread_read' = [thread_read EXCEPT ![t] = monitor_state.total_checks]
    /\ thread_pc' = [thread_pc EXCEPT ![t] = "write_checks"]
    /\ UNCHANGED <<form_vars, mail_vars, monitor_state, state_file, jobs, app_up, thread_files,
                   reply, runs_completed, files_completed, runs_started, restarts>>

\* monitor_state["total_checks"] += 1, the write
job_WriteChecks(t) ==
    /\ thread_pc[t] = "write_checks"
    /\ monitor_state' = [monitor_state EXCEPT !.total_checks = thread_read[t] + 1]
    /\ thread_pc' = [thread_pc EXCEPT ![t] = "read_files"]
    /\ UNCHANGED <<form_vars, mail_vars, state_file, jobs, app_up, thread_read, thread_files,
                   reply, runs_completed, files_completed, runs_started, restarts>>

\* monitor_state["total_files_extracted"] += len(result.files_extracted): the
\* dict is read before len(...) is called
job_ReadFiles(t) ==
    /\ thread_pc[t] = "read_files"
    /\ thread_read' = [thread_read EXCEPT ![t] = monitor_state.total_files_extracted]
    /\ thread_pc' = [thread_pc EXCEPT ![t] = "write_files"]
    /\ UNCHANGED <<form_vars, mail_vars, monitor_state, state_file, jobs, app_up, thread_files,
                   reply, runs_completed, files_completed, runs_started, restarts>>

\* ... and written after it
job_WriteFiles(t) ==
    /\ thread_pc[t] = "write_files"
    /\ monitor_state' =
          [monitor_state EXCEPT
              !.total_files_extracted = thread_read[t] + thread_files[t]]
    /\ thread_pc' = [thread_pc EXCEPT ![t] = "save"]
    /\ UNCHANGED <<form_vars, mail_vars, state_file, jobs, app_up, thread_read, thread_files,
                   reply, runs_completed, files_completed, runs_started, restarts>>

\* save_monitor_state(), and the end of auto_extract_job
job_Save(t) ==
    /\ thread_pc[t] = "save"
    /\ state_file' = SavedFile(monitor_state)
    /\ thread_pc' = [thread_pc EXCEPT ![t] = AfterJob(t)]
    /\ UNCHANGED <<form_vars, mail_vars, monitor_state, jobs, app_up, thread_read, thread_files,
                   reply, runs_completed, files_completed, runs_started, restarts>>

auto_extract_job(t) ==
    \/ job_NoCredentials(t)
    \/ job_Fails(t)
    \/ job_Extract(t)
    \/ job_ReadChecks(t)
    \/ job_WriteChecks(t)
    \/ job_ReadFiles(t)
    \/ job_WriteFiles(t)
    \/ job_Save(t)

MonitorNext ==
    \/ startup_event
    \/ shutdown_event
    \/ start_monitor_Unauthenticated
    \/ start_monitor_AlreadyRunning
    \/ start_monitor_Mark
    \/ start_monitor_StartJob
    \/ start_monitor_Return
    \/ stop_monitor_NotRunning
    \/ stop_monitor
    \/ scheduler_Fire
    \/ \E t \in Threads : auto_extract_job(t)

MonitorSpec == MonitorInit /\ [][MonitorNext]_vars

----------------------------------------------------------------------------
\* the application is up and no /monitor/start request is being served
Quiescent == app_up /\ thread_pc["request"] = "idle"

\* number of jobs with the id 'auto_extract_job' in the job store
JobCount == Cardinality({i \in DOMAIN jobs : jobs[i] = JOB_ID})

\* the job 'auto_extract_job' is scheduled
JobScheduled == JobCount > 0

(* C22: after any sequence of startup, POST /monitor/start, POST            *)
(* /monitor/stop and shutdown/restart, monitor_state["is_running"] is true  *)
(* exactly when the job 'auto_extract_job' is scheduled, at most one such   *)
(* job exists, and a start request answered "already_running" has a        *)
(* scheduled job behind it.                                                 *)
C22_RunningIffScheduled ==
    Quiescent =>
        /\ monitor_state.is_running <=> JobScheduled
        /\ JobCount <= 1
        /\ reply = "already_running" => JobScheduled

\* at most one such job exists, at every moment
C22_AtMostOneJob == JobCount <= 1

\* a restart with the flag saved as true: running, and nothing scheduled
C22_RestartedRunning ==
    /\ Quiescent /\ restarts = 1
    /\ monitor_state.is_running /\ ~JobScheduled
    /\ reply = "already_running"


----------------------------------------------------------------------------
\* no run of auto_extract_job is between its extract_all and the end of its
\* save_monitor_state()
JobsSettled ==
    \A t \in Threads :
        thread_pc[t] \notin {"read_checks", "write_checks", "read_files",
                             "write_files", "save"}

\* the two counters of monitor_state
Counters ==
    <<monitor_state.total_checks, monitor_state.total_files_extracted>>

(* C24: no lost update on the monitor counters: under every interleaving of *)
(* auto_extract_job run by the scheduler's thread with auto_extract_job run *)
(* synchronously by POST /monitor/start, total_checks equals the number of  *)
(* runs that completed extraction and total_files_extracted equals the sum  *)
(* of the files those runs extracted, once every such run has saved.        *)
C24_NoLostUpdate ==
    (app_up /\ JobsSettled) =>
        /\ monitor_state.total_checks = runs_completed
        /\ monitor_state.total_files_extracted = files_completed

\* C24, the files counter alone: its read and its write are separated by the
\* call of len(...)
C24_NoLostFile ==
    (app_up /\ JobsSettled) =>
        monitor_state.total_files_extracted = files_completed

\* C24, second part: within one process both counters never decrease
C24_NeverDecrease ==
    [][(app_up /\ app_up') =>
          /\ monitor_state'.total_checks >= monitor_state.total_checks
          /\ monitor_state'.total_files_extracted >=
                monitor_state.total_files_extracted]_vars

\* C24, third part: a run that fails or has no credentials leaves both
\* counters unchanged
C24_FailedRunLeavesCounters ==
    [][(\E t \in Threads : job_NoCredentials(t) \/ job_Fails(t)) =>
          Counters' = Counters]_vars

\* the counters are never above what the runs did
C24_NeverOvercount ==
    app_up =>
        /\ monitor_state.total_checks <= runs_completed
        /\ monitor_state.total_files_extracted <= files_completed


----------------------------------------------------------------------------
(* GmailExcelExtractor.extract_all *)

\* messages fetch_emails may return
MaxMessages == 2

\* spreadsheet attachments of one message
MaxAttachments == 2

\* what an attachment is: a part without attachmentId, or a file for which
\* process_and_validate_excel returns (None, df), returns (report, None), or
\* which makes pd.read_excel or the validator raise
AttachmentKinds == {"no_id", "valid", "invalid", "raises"}

\* the lists get_attachments can return
AttachmentLists ==
    UNION {[1..n -> AttachmentKinds] : n \in 0..MaxAttachments}

\* a message: whether resolve_company_from_sender knows its sender, and its
\* spreadsheet attachments
Messages == [known : BOOLEAN, attachments : AttachmentLists]

\* the lists fetch_emails can return
Mailboxes == UNION {[1..n -> Messages] : n \in 0..MaxMessages}

\* the message and the attachment extract_all is at
AtMessage == extract_pc = "message" /\ msg_i <= Len(messages)
Attachments == messages[msg_i].attachments
AtAttachment == extract_pc = "attachment" /\ att_i <= Len(Attachments)
Here == <<msg_i, att_i>>

\* the state when extract_all is called with the default filter
\* (unread_only): every message fetched carries the label UNREAD
ExtractInit ==
    /\ AppNotStarted /\ FormNotCalled
    /\ messages \in Mailboxes
    /\ unread = DOMAIN messages
    /\ msg_i = 0 /\ att_i = 0
    /\ extract_pc = "start"
    /\ any_success = FALSE
    /\ extracted_files = <<>> /\ errors = <<>>
    /\ reports_sent = {} /\ results = {} /\ mark_requests = {}

\* company_db = self._load_company_db(); messages = self.fetch_emails(filters)
extract_Fetch ==
    /\ extract_pc = "start"
    /\ extract_pc' = "message"
    /\ msg_i' = 1
    /\ UNCHANGED <<form_vars, app_vars, messages, unread, att_i, any_success,
                   extracted_files, errors, reports_sent, results, mark_requests>>

\* company.json is missing, or the Gmail list call fails: extract_all raises
extract_FetchRaises ==
    /\ extract_pc = "start"
    /\ extract_pc' = "raised"
    /\ UNCHANGED <<form_vars, app_vars, messages, unread, msg_i, att_i,
                   any_success, extracted_files, errors, reports_sent, results,
                   mark_requests>>

\* get_email_details returns None: an error is recorded, next message
message_NoDetails ==
    /\ AtMessage
    /\ errors' = Append(errors, <<msg_i, 0>>)
    /\ msg_i' = msg_i + 1
    /\ UNCHANGED <<form_vars, app_vars, messages, unread, att_i, extract_pc,
                   any_success, extracted_files, reports_sent, results,
                   mark_requests>>

\* extract_metadata or get_attachments raises: the handler of the message
message_Raises ==
    /\ AtMessage
    /\ errors' = Append(errors, <<msg_i, 0>>)
    /\ msg_i' = msg_i + 1
    /\ UNCHANGED <<form_vars, app_vars, messages, unread, att_i, extract_pc,
                   any_success, extracted_files, reports_sent, results,
                   mark_requests>>

\* unknown sender: quarantine, next message
message_Quarantine ==
    /\ AtMessage
    /\ ~messages[msg_i].known
    /\ msg_i' = msg_i + 1
    /\ UNCHANGED <<form_vars, app_vars, messages, unread, att_i, extract_pc,
                   any_success, extracted_files, errors, reports_sent, results,
                   mark_requests>>

\* no spreadsheet attachment: next message
message_NoAttachments ==
    /\ AtMessage
    /\ messages[msg_i].known
    /\ Attachments = <<>>
    /\ msg_i' = msg_i + 1
    /\ UNCHANGED <<form_vars, app_vars, messages, unread, att_i, extract_pc,
                   any_success, extracted_files, errors, reports_sent, results,
                   mark_requests>>

\* any_success = False, and the loop over the attachments begins
message_Attachments ==
    /\ AtMessage
    /\ messages[msg_i].known
    /\ Attachments # <<>>
    /\ any_success' = FALSE
    /\ att_i' = 1
    /\ extract_pc' = "attachment"
    /\ UNCHANGED <<form_vars, app_vars, messages, unread, msg_i, extracted_files,
                   errors, reports_sent, results, mark_requests>>

\* an attachment without attachmentId is skipped
attachment_Skip ==
    /\ AtAttachment
    /\ Attachments[att_i] = "no_id"
    /\ results' = results \cup {<<msg_i, att_i, "skipped">>}
    /\ att_i' = att_i + 1
    /\ UNCHANGED <<form_vars, app_vars, messages, unread, msg_i, extract_pc,
                   any_success, extracted_files, errors, reports_sent,
                   mark_requests>>

\* download_attachment raises: the handler of the attachment
attachment_DownloadRaises ==
    /\ AtAttachment
    /\ Attachments[att_i] # "no_id"
    /\ errors' = Append(errors, Here)
    /\ results' = results \cup {<<msg_i, att_i, "not_downloaded">>}
    /\ att_i' = att_i + 1
    /\ UNCHANGED <<form_vars, app_vars, messages, unread, msg_i, extract_pc,
                   any_success, extracted_files, reports_sent, mark_requests>>

\* downloaded; pd.read_excel or process_and_validate_excel raises
attachment_ValidationRaises ==
    /\ AtAttachment
    /\ Attachments[att_i] = "raises"
    /\ errors' = Append(errors, Here)
    /\ results' = results \cup {<<msg_i, att_i, "raised">>}
    /\ att_i' = att_i + 1
    /\ UNCHANGED <<form_vars, app_vars, messages, unread, msg_i, extract_pc,
                   any_success, extracted_files, reports_sent, mark_requests>>

\* downloaded; process_and_validate_excel returns a report
attachment_Rejected ==
    /\ AtAttachment
    /\ Attachments[att_i] = "invalid"
    /\ results' = results \cup {<<msg_i, att_i, "rejected">>}
    /\ extract_pc' = "report"
    /\ UNCHANGED <<form_vars, app_vars, messages, unread, msg_i, att_i,
                   any_success, extracted_files, errors, reports_sent,
                   mark_requests>>

\* downloaded; process_and_validate_excel returns (None, cleaned_df)
attachment_Accepted ==
    /\ AtAttachment
    /\ Attachments[att_i] = "valid"
    /\ extract_pc' = "save"
    /\ UNCHANGED <<form_vars, app_vars, messages, unread, msg_i, att_i,
                   any_success, extracted_files, errors, reports_sent, results,
                   mark_requests>>

\* _send_error_report_email, then continue: Gmail accepts the mail, or the
\* send call raises HttpError, which is logged and dropped, or it raises
\* something else, which reaches the handler of the attachment
attachment_SendReport ==
    /\ extract_pc = "report"
    /\ \E outcome \in {"sent", "HttpError", "error"} :
          /\ reports_sent' =
                IF outcome = "sent" THEN reports_sent \cup {Here}
                                    ELSE reports_sent
          /\ errors' = IF outcome = "error" THEN Append(errors, Here) ELSE errors
    /\ att_i' = att_i + 1
    /\ extract_pc' = "attachment"
    /\ UNCHANGED <<form_vars, app_vars, messages, unread, msg_i, any_success,
                   extracted_files, results, mark_requests>>

\* cleaned_df.to_excel(cleaned_path), extracted_files.append(...),
\* any_success = True
attachment_Save ==
    /\ extract_pc = "save"
    /\ extracted_files' = Append(extracted_files, Here)
    /\ any_success' = TRUE
    /\ results' = results \cup {<<msg_i, att_i, "saved">>}
    /\ att_i' = att_i + 1
    /\ extract_pc' = "attachment"
    /\ UNCHANGED <<form_vars, app_vars, messages, unread, msg_i, errors,
                   reports_sent, mark_requests>>

\* cleaned_df.to_excel raises: the handler of the attachment
attachment_SaveRaises ==
    /\ extract_pc = "save"
    /\ errors' = Append(errors, Here)
    /\ results' = results \cup {<<msg_i, att_i, "not_saved">>}
    /\ att_i' = att_i + 1
    /\ extract_pc' = "attachment"
    /\ UNCHANGED <<form_vars, app_vars, messages, unread, msg_i, any_success,
                   extracted_files, reports_sent, mark_requests>>

\* mark_as_read(msg_id): Gmail removes the label, or the modify call raises
\* HttpError, which is logged and dropped, or it raises something else, which
\* reaches the handler of the message
mark_as_read ==
    /\ extract_pc = "attachment" /\ att_i > Len(Attachments)
    /\ any_success
    /\ \E outcome \in {"marked", "HttpError", "error"} :
          /\ unread' = IF outcome = "marked" THEN unread \ {msg_i} ELSE unread
          /\ errors' =
                IF outcome = "error" THEN Append(errors, <<msg_i, 0>>) ELSE errors
    /\ mark_requests' = mark_requests \cup {msg_i}
    /\ msg_i' = msg_i + 1
    /\ extract_pc' = "message"
    /\ UNCHANGED <<form_vars, app_vars, messages, att_i, any_success,
                   extracted_files, reports_sent, results>>

\* no attachment succeeded: the message is left as it is
message_NotMarked ==
    /\ extract_pc = "attachment" /\ att_i > Len(Attachments)
    /\ ~any_success
    /\ msg_i' = msg_i + 1
    /\ extract_pc' = "message"
    /\ UNCHANGED <<form_vars, app_vars, messages, unread, att_i, any_success,
                   extracted_files, errors, reports_sent, results, mark_requests>>

\* return ExtractionResult(...)
extract_Return ==
    /\ extract_pc = "message" /\ msg_i > Len(messages)
    /\ extract_pc' = "returned"
    /\ UNCHANGED <<form_vars, app_vars, messages, unread, msg_i, att_i,
                   any_success, extracted_files, errors, reports_sent, results,
                   mark_requests>>

extract_all ==
    \/ extract_Fetch
    \/ extract_FetchRaises
    \/ message_NoDetails
    \/ message_Raises
    \/ message_Quarantine
    \/ message_NoAttachments
    \/ message_Attachments
    \/ attachment_Skip
    \/ attachment_DownloadRaises
    \/ attachment_ValidationRaises
    \/ attachment_Rejected
    \/ attachment_Accepted
    \/ attachment_SendReport
    \/ attachment_Save
    \/ attachment_SaveRaises
    \/ mark_as_read
    \/ message_NotMarked
    \/ extract_Return

ExtractSpec == ExtractInit /\ [][extract_all]_vars

----------------------------------------------------------------------------
\* extract_all has returned its ExtractionResult
ExtractReturned == extract_pc = "returned"

\* the attachments of message m, by position
AttachmentsOf(m) == DOMAIN messages[m].attachments

\* an attachment of m was downloaded, passed validation and was saved
Saved(m) == \E a \in AttachmentsOf(m) : <<m, a, "saved">> \in results

\* the attachments validation rejected
RejectedAttachments == {<<r[1], r[2]>> : r \in {x \in results : x[3] = "rejected"}}

\* an ExtractedFile was recorded for the attachment
Recorded(ma) == \E i \in DOMAIN extracted_files : extracted_files[i] = ma

\* message m carries no UNREAD label any more
MarkedRead(m) == m \notin unread

(* C23: when extract_all returns, a message is marked as read if and only   *)
(* if at least one of its attachments was downloaded, passed validation and *)
(* was saved as a cleaned file (so a message from an unknown sender, one    *)
(* without spreadsheet attachments, and one all of whose attachments were   *)
(* rejected or raised stay unread), and for each attachment rejected by     *)
(* validation an error report was sent to the sender and no ExtractedFile   *)
(* is recorded.                                                             *)
C23_MarkedIffSaved ==
    ExtractReturned =>
        /\ \A m \in DOMAIN messages : MarkedRead(m) <=> Saved(m)
        /\ \A ma \in RejectedAttachments : ma \in reports_sent /\ ~Recorded(ma)

\* C23, the direction that holds at every moment: a message that is marked
\* as read has a saved attachment
C23_MarkedOnlyIfSaved ==
    \A m \in DOMAIN messages : MarkedRead(m) => Saved(m)

\* C23, the calls: mark_as_read is called for exactly the messages with a
\* saved attachment
C23_MarkRequestedIffSaved ==
    ExtractReturned => \A m \in DOMAIN messages : m \in mark_requests <=> Saved(m)

\* C23, the messages that stay unread
C23_StayUnread ==
    \A m \in DOMAIN messages :
        (\/ ~messages[m].known
         \/ messages[m].attachments = <<>>
         \/ \A a \in AttachmentsOf(m) : messages[m].attachments[a] # "valid")
            => ~MarkedRead(m)

\* C23, the records: an ExtractedFile exists exactly for the saved
\* attachments, and for none that validation rejected
C23_RecordedIffSaved ==
    /\ \A i \in DOMAIN extracted_files :
          <<extracted_files[i][1], extracted_files[i][2], "saved">> \in results
    /\ \A r \in results : r[3] = "saved" => Recorded(<<r[1], r[2]>>)
    /\ \A ma \in RejectedAttachments : ~Recorded(ma)

\* a message with a saved attachment that is still unread on return
C23_SavedButUnread ==
    ExtractReturned /\ \E m \in DOMAIN messages : Saved(m) /\ ~MarkedRead(m)

\* a rejected attachment whose report no one received, with no error noted
C23_RejectedNoReport ==
    /\ ExtractReturned
    /\ \E ma \in RejectedAttachments : ma \notin reports_sent
    /\ errors = <<>>

====
